---- MODULE Spec2Model ----
(***************************************************************************)
(* A model of the request-handling core of h3: the EventStream (SSE)       *)
(* class, handler composition (defineEventHandler / _callHandler), lazy    *)
(* handlers (defineLazyEventHandler), error normalisation (createError),   *)
(* response preparation (prepareResponse) and the URL accessors of an      *)
(* event (H3WebEvent).                                                     *)
(*                                                                         *)
(* Each component has its own variables, its own initial predicate and its *)
(* own next-state relation; a specification runs one component and leaves  *)
(* the variables of the others at rest.                                    *)
(***************************************************************************)
EXTENDS Integers, Sequences, FiniteSets, TLC

(***************************************************************************)
(* Bounds of the model.                                                    *)
(***************************************************************************)
\* API calls (push, pause, resume, flush, close) made on one EventStream.
MaxCalls == 5
\* Messages pushed to one EventStream.
MaxPush == 3
\* Hooks in one onRequest / onBeforeResponse list of a handler object.
MaxHooks == 2
\* Invocations and resolve() calls made on one lazy handler.
MaxLazyCalls == 3
\* Changes made to the event's response state before the handler returns.
MaxSetup == 2
\* Calls of send() made on the EventStream of one event.
MaxSends == 2
\* Reads of the URL accessors of one event.
MaxReads == 3
\* getSession / useSession / updateSession calls made on one event.
MaxSessionCalls == 3
\* clearSession calls made on one event.
MaxClears == 1
\* withBase handlers nested around one handler.
MaxNesting == 2
\* set-cookie entries the response of one event holds.
MaxCookies == 3

VARIABLES
    \* ---- EventStream (src/unnamed/part_003, 340-569)
    _writerIsClosed,  \* set by the _writer.closed.then callback
    _paused,
    _unsentData,      \* pending buffer: a sequence of lines, <<>> when undefined or ""
    _disposed,
    _writer,          \* the WritableStreamDefaultWriter of the TransformStream
    closeCalls,       \* close() activations suspended at `await this._writer.close()`
    writeCalls,       \* every _writer.write(...) call made so far, in call order
    pushed,           \* every message handed to push() so far, in push order
    sseOp,            \* the EventStream method called last
    sseCalls,         \* number of API calls made so far
    closeCalled,      \* close() has been called at least once
    escaped,          \* an error escaped from an EventStream method
    autoclose,        \* the constructor registered the "close" listener on node.res
    resClosed,        \* node.res has emitted "close"
    \* ---- defineEventHandler / _callHandler (src/unnamed/part_008, 530-628)
    handlerObject,    \* the handler object given to defineEventHandler
    _handler,         \* the properties of the function defineEventHandler returned
    _hooks,           \* { onRequest, onBeforeResponse } after _normalizeArray
    callPc,           \* where the invocation of _callHandler stands
    response,         \* the `{ body }` container handed to the onBeforeResponse hooks
    callLog,          \* the calls and settlements observed, in order
    callResult,       \* what the invocation settled with
    \* ---- defineLazyEventHandler (src/unnamed/part_008, 721-797)
    _promise,         \* the memoized promise of resolveHandler
    _resolved,        \* { handler } once the load has produced a function
    loadCalls,        \* every call of load() so far, with how it came back
    lazyCalls,        \* every call of the lazy handler or of its resolve(), in order
    \* ---- createError (src/unnamed/part_000, 288-389)
    errInput,         \* the value createError is called with
    errOutput,        \* what the call came back with
    errAgain,         \* what createError came back with, called on that result
    errJSON,          \* what toJSON() of the returned error came back with
    \* ---- H3WebEvent.response / prepareResponse (src/src/adapters.ts, 273-504)
    method,           \* event.method
    debug,            \* config.debug of the app
    status,           \* event.response.status
    statusText,       \* event.response.statusText
    _headersInit,     \* WebEventResponse._headersInit
    _headers,         \* WebEventResponse._headers
    setup,            \* number of changes made to the response state so far
    val,              \* the value handed to prepareResponse
    before,           \* the response state as prepareResponse found it
    prepared,         \* the Response prepareResponse returned
    applied,          \* one Headers object every header call so far was applied to
    touched,          \* the header names set, appended to or deleted on the event so far
    requestHeaders,   \* the names event.request.headers has
    _handled,         \* EventStream._handled of the stream created for the event
    sendCalls,        \* what each call of send() so far returned, in call order
    \* ---- H3WebEvent URL accessors (src/unnamed/part_008, 98-283)
    requestUrl,       \* request.url, the literal URL of the request
    _url,             \* the parsed URL once `url` has been read
    _pathname,
    _urlqindex,
    _query,
    _queryString,
    urlReads,         \* the accessors read so far and what each returned
    \* ---- sessions (src/src/utils/ws.ts, 133-494)
    requestSession,   \* the sealed session the request carries: none, valid, invalid
    sessions,         \* event.context.sessions[name]: a session object, 0 for none
    sessionObjects,   \* every session object created so far
    sessionCalls,     \* every getSession / useSession / updateSession call so far
    jobs,             \* the promise reactions queued, oldest first
    generated,        \* number of session ids generated so far
    cleared,          \* what each clearSession call so far removed
    \* ---- withBase (src/src/utils/base.ts, 30-71)
    evPathname,       \* event.url.pathname
    originalPathname, \* event.url.pathname before the outermost handler is called
    baseChain,        \* the bases of the nested withBase handlers, outermost first
    baseFrames,       \* the withBase handlers entered and not settled: base, _pathBefore
    baseH,            \* the wrapped handler h: its state and the pathname it saw
    baseLog,          \* per settled withBase handler: pathname before and after
    baseResult,       \* the promise of the outermost withBase handler
    \* ---- cookies (src/src/utils/fingerprint.ts, 224-333)
    setCookieHeader,  \* event.response.headers.getSetCookie(): the set-cookie entries
    cookieJar         \* per distinct key, the cookie of the latest call, oldest key first

sseVars == <<_writerIsClosed, _paused, _unsentData, _disposed, _writer,
             closeCalls, writeCalls, pushed, sseOp, sseCalls, closeCalled, escaped,
             autoclose, resClosed>>

handlerVars == <<handlerObject, _handler, _hooks, callPc, response, callLog, callResult>>

lazyVars == <<_promise, _resolved, loadCalls, lazyCalls>>

errorVars == <<errInput, errOutput, errAgain, errJSON>>

responseVars == <<method, debug, status, statusText, _headersInit, _headers, setup,
                  val, before, prepared, applied, touched, requestHeaders, _handled, sendCalls>>

urlVars == <<requestUrl, _url, _pathname, _urlqindex, _query, _queryString, urlReads>>

sessionVars == <<requestSession, sessions, sessionObjects, sessionCalls, jobs,
                 generated, cleared>>

baseVars == <<evPathname, originalPathname, baseChain, baseFrames, baseH, baseLog,
              baseResult>>

cookieVars == <<setCookieHeader, cookieJar>>

vars == <<sseVars, handlerVars, lazyVars, errorVars, responseVars, urlVars, sessionVars,
          baseVars, cookieVars>>

\* What an action of one component leaves alone: the other components.
notSSE == <<handlerVars, lazyVars, errorVars, responseVars, urlVars, sessionVars,
    baseVars, cookieVars>>

notHandler == <<sseVars, lazyVars, errorVars, responseVars, urlVars, sessionVars,
    baseVars, cookieVars>>

notLazy == <<sseVars, handlerVars, errorVars, responseVars, urlVars, sessionVars,
    baseVars, cookieVars>>

notError == <<sseVars, handlerVars, lazyVars, responseVars, urlVars, sessionVars,
    baseVars, cookieVars>>

notResponse == <<sseVars, handlerVars, lazyVars, errorVars, urlVars, sessionVars,
    baseVars, cookieVars>>

notUrl == <<sseVars, handlerVars, lazyVars, errorVars, responseVars, sessionVars,
    baseVars, cookieVars>>

notSession == <<sseVars, handlerVars, lazyVars, errorVars, responseVars, urlVars,
    baseVars, cookieVars>>

notBase == <<sseVars, handlerVars, lazyVars, errorVars, responseVars, urlVars,
    sessionVars, cookieVars>>

notCookie == <<sseVars, handlerVars, lazyVars, errorVars, responseVars, urlVars,
    sessionVars, baseVars>>

(***************************************************************************)
(* Small helpers.                                                          *)
(***************************************************************************)
Last(s) == s[Len(s)]

RECURSIVE Flatten(_)
Flatten(ss) == IF ss = <<>> THEN <<>> ELSE Head(ss) \o Flatten(Tail(ss))

\* JavaScript's undefined: a missing field, an unset variable. Values carry
\* their type in the field t.
Undefined == [t |-> "undefined"]

(***************************************************************************)
(* JavaScript values. A string is the sequence of its character codes, a   *)
(* number is an integer or NaN, an object is a record of its properties    *)
(* (a property holding Undefined stands for a property the object lacks).  *)
(***************************************************************************)
Null == [t |-> "null"]

NaN == [t |-> "NaN"]

Str(codes) == [t |-> "string", s |-> codes]

Num(n) == [t |-> "number", n |-> n]

Bool(b) == [t |-> "boolean", b |-> b]

\* `typeof v`
TypeOf(v) ==
    IF v.t \in {"number", "NaN"} THEN "number"
    ELSE IF v.t \in {"undefined", "string", "boolean", "bigint", "symbol", "function"}
    THEN v.t
    ELSE "object"

\* `v == null`: what `??` and `?.` test.
Nullish(v) == v.t \in {"undefined", "null"}

\* ToBoolean(v): what `!v`, `v || w` and `if (v)` test.
Truthy(v) ==
    IF v.t \in {"undefined", "null", "NaN"} THEN FALSE
    ELSE IF v.t = "string" THEN v.s # <<>>
    ELSE IF v.t = "number" THEN v.n # 0
    ELSE IF v.t = "boolean" THEN v.b
    ELSE TRUE

\* `a ?? b`
Coalesce(a, b) == IF Nullish(a) THEN b ELSE a

\* `a || b`
Or(a, b) == IF Truthy(a) THEN a ELSE b

\* `v?.f`: undefined for null and undefined, for a primitive (no such
\* property on its wrapper) and for an object that lacks f.
Get(v, f) ==
    IF v.t \in {"object", "H3Error", "Error"} /\ f \in DOMAIN v THEN v[f] ELSE Undefined

(***************************************************************************)
(* SSE wire format. A payload is a sequence of lines; a line is            *)
(* <<field, value>> and the blank line that ends a message is BlankLine.   *)
(* A message is a record [id, event, retry, retryIsInt, data]; an id or    *)
(* event of 0 stands for an absent (or empty, falsy) field.                *)
(***************************************************************************)
BlankLine == <<"", 0>>

\* formatEventStreamMessage(message)
formatEventStreamMessage(message) ==
    (IF message.id # 0 THEN << <<"id", message.id>> >> ELSE <<>>)
    \o (IF message.event # 0 THEN << <<"event", message.event>> >> ELSE <<>>)
    \o (IF message.retryIsInt THEN << <<"retry", message.retry>> >> ELSE <<>>)
    \o << <<"data", message.data>>, BlankLine >>

\* formatEventStreamMessages(messages)
RECURSIVE formatEventStreamMessages(_)
formatEventStreamMessages(messages) ==
    IF messages = <<>> THEN <<>>
    ELSE formatEventStreamMessage(Head(messages))
         \o formatEventStreamMessages(Tail(messages))

\* The message push() builds from a plain string: { data: message }.
StringMessage(d) == [id |-> 0, event |-> 0, retry |-> 0, retryIsInt |-> FALSE, data |-> d]

\* A structured EventStreamMessage with every optional field present.
FullMessage(d) == [id |-> d, event |-> 1, retry |-> 3, retryIsInt |-> TRUE, data |-> d]

\* A structured message whose retry is not an integer (the retry line is omitted).
BadRetryMessage(d) == [id |-> 0, event |-> 1, retry |-> 0, retryIsInt |-> FALSE, data |-> d]

\* The arguments push() is called with; the data of the k-th pushed message is k.
PushArgs(n) ==
    { << StringMessage(n + 1) >>,
      << FullMessage(n + 1) >>,
      << BadRetryMessage(n + 1) >>,
      << StringMessage(n + 1), StringMessage(n + 2) >>,
      << >> }

\* push() takes a string or one message (array = FALSE) or an array of them.
PushInputs(n) ==
    { [array |-> Len(msgs) # 1, msgs |-> msgs] : msgs \in PushArgs(n) }
    \cup { [array |-> TRUE, msgs |-> << FullMessage(n + 1) >>] }

(***************************************************************************)
(* The writable side of the TransformStream, as the Streams standard       *)
(* defines it. state: "writable", "closing" (close requested, writes       *)
(* still queued), "closed", "errored". queue: the accepted writes that     *)
(* have not completed; a write completes when the readable side is read.   *)
(***************************************************************************)
WriterAccepts(w) == w.state = "writable"

\* _writer.write(chunk): accepted (queued) only while the stream is writable;
\* byFlush marks the write a flush() is awaiting.
WriterWrite(w, chunk, byFlush) ==
    IF WriterAccepts(w)
    THEN [w EXCEPT !.queue = Append(@, [payload |-> chunk, byFlush |-> byFlush])]
    ELSE w

\* _writer.close(): accepted only while the stream is writable.
WriterClose(w) == IF WriterAccepts(w) THEN [w EXCEPT !.state = "closing"] ELSE w

(***************************************************************************)
(* EventStream                                                             *)
(***************************************************************************)
\* `new EventStream(event, opts)`: with `opts.autoclose !== false` and an
\* event that has node.res the listener is registered; with autoclose: false,
\* or on a runtime without event.node, it is not.
EventStreamNew ==
    /\ _writerIsClosed = FALSE
    /\ _paused = FALSE
    /\ _unsentData = <<>>
    /\ _disposed = FALSE
    /\ _writer = [state |-> "writable", queue |-> <<>>]
    /\ closeCalls = [awaiting |-> 0, rejected |-> 0]
    /\ writeCalls = <<>>
    /\ pushed = <<>>
    /\ sseOp = "new"
    /\ sseCalls = 0
    /\ closeCalled = FALSE
    /\ escaped = FALSE
    /\ autoclose \in BOOLEAN
    /\ resClosed = FALSE

\* The EventStream of an event that has node.res, constructed with the
\* default options.
EventStreamInit == EventStreamNew /\ autoclose

\* The entry logged for a call _writer.write(payload).
WriteCall(payload, by) ==
    [payload |-> payload, by |-> by, accepted |-> WriterAccepts(_writer)]

\* Mutant of SendGuard: the closed check is missing.
SendGuardMissing == FALSE

\* `if (this._writerIsClosed) return;` at the head of _sendEvent / _sendEvents.
SendGuard == _writerIsClosed

\* Mutant of BufferAppend: `=` where the code has `+=`.
BufferOverwrite(unsent, payload) == payload

\* The paused branches of _sendEvent: the buffer after `_unsentData = payload`
\* (empty buffer) or `_unsentData += payload`.
BufferAppend(unsent, payload) ==
    IF unsent = <<>> THEN payload ELSE unsent \o payload

\* `.write(...).catch(() => {})`: the promise push() awaits is fulfilled
\* whether the write was accepted or rejected.
WriteCaught(accepted) == TRUE

\* _sendEvent / _sendEvents after the payload has been formatted.
SendPayload(payload) ==
    IF SendGuard
    THEN UNCHANGED <<_unsentData, _writer, writeCalls, escaped>>
    ELSE IF _paused
    THEN /\ _unsentData' = BufferAppend(_unsentData, payload)
         /\ UNCHANGED <<_writer, writeCalls, escaped>>
    ELSE /\ writeCalls' = Append(writeCalls, WriteCall(payload, "push"))
         /\ _writer' = WriterWrite(_writer, payload, FALSE)
         /\ escaped' = (escaped \/ ~WriteCaught(WriterAccepts(_writer)))
         /\ UNCHANGED _unsentData

\* _sendEvent(message)
_sendEvent(message) == SendPayload(formatEventStreamMessage(message))

\* _sendEvents(messages)
_sendEvents(messages) == SendPayload(formatEventStreamMessages(messages))

\* push(message): a string or a single message goes to _sendEvent, an empty
\* array returns at once, any other array goes to _sendEvents.
Push(input) ==
    /\ sseCalls < MaxCalls
    /\ Len(pushed) + Len(input.msgs) <= MaxPush
    /\ IF ~input.array THEN _sendEvent(input.msgs[1])
       ELSE IF input.msgs = <<>>
            THEN UNCHANGED <<_unsentData, _writer, writeCalls, escaped>>
            ELSE _sendEvents(input.msgs)
    /\ pushed' = pushed \o input.msgs
    /\ sseOp' = "push"
    /\ sseCalls' = sseCalls + 1
    /\ UNCHANGED <<_writerIsClosed, _paused, _disposed, closeCalls, closeCalled>>
    /\ UNCHANGED <<autoclose, resClosed>>
    /\ UNCHANGED notSSE

\* pause()
Pause ==
    /\ sseCalls < MaxCalls
    /\ _paused' = TRUE
    /\ sseOp' = "pause"
    /\ sseCalls' = sseCalls + 1
    /\ UNCHANGED <<_writerIsClosed, _unsentData, _disposed, _writer, closeCalls,
                   writeCalls, pushed, closeCalled, escaped>>
    /\ UNCHANGED <<autoclose, resClosed>>
    /\ UNCHANGED notSSE

\* flush() without its `if (this._writerIsClosed) return;`.
FlushStartUnguarded ==
    IF _unsentData # <<>>
    THEN /\ writeCalls' = Append(writeCalls, WriteCall(_unsentData, "flush"))
         /\ _writer' = WriterWrite(_writer, _unsentData, TRUE)
    ELSE UNCHANGED <<writeCalls, _writer>>

\* flush() up to its await: the buffer is handed to the writer and is cleared
\* only once that write has completed (see WriteDone); a rejected write is
\* swallowed by the catch and leaves the buffer as it is.
FlushStart ==
    IF ~_writerIsClosed /\ _unsentData # <<>>
    THEN /\ writeCalls' = Append(writeCalls, WriteCall(_unsentData, "flush"))
         /\ _writer' = WriterWrite(_writer, _unsentData, TRUE)
    ELSE UNCHANGED <<writeCalls, _writer>>

\* flush()
Flush ==
    /\ sseCalls < MaxCalls
    /\ FlushStart
    /\ sseOp' = "flush"
    /\ sseCalls' = sseCalls + 1
    /\ UNCHANGED <<_writerIsClosed, _paused, _unsentData, _disposed, closeCalls,
                   pushed, closeCalled, escaped>>
    /\ UNCHANGED <<autoclose, resClosed>>
    /\ UNCHANGED notSSE

\* resume(): the flag is flipped, then flush() runs up to its await.
Resume ==
    /\ sseCalls < MaxCalls
    /\ _paused' = FALSE
    /\ FlushStart
    /\ sseOp' = "resume"
    /\ sseCalls' = sseCalls + 1
    /\ UNCHANGED <<_writerIsClosed, _unsentData, _disposed, closeCalls,
                   pushed, closeCalled, escaped>>
    /\ UNCHANGED <<autoclose, resClosed>>
    /\ UNCHANGED notSSE

\* close() up to its await. Disposed: return. Writer known closed: disposed
\* at once. Otherwise _writer.close() is called and awaited: it is accepted
\* when the stream is writable and rejects (caught) in any other state.
close ==
    /\ IF _disposed
       THEN UNCHANGED <<_disposed, _writer, closeCalls>>
       ELSE IF _writerIsClosed
       THEN /\ _disposed' = TRUE
            /\ UNCHANGED <<_writer, closeCalls>>
       ELSE /\ _writer' = WriterClose(_writer)
            /\ closeCalls' =
                 IF WriterAccepts(_writer)
                 THEN [closeCalls EXCEPT !.awaiting = @ + 1]
                 ELSE [closeCalls EXCEPT !.rejected = @ + 1]
            /\ UNCHANGED _disposed
    /\ closeCalled' = TRUE

\* close() is called by application code.
Close ==
    /\ sseCalls < MaxCalls
    /\ close
    /\ sseOp' = "close"
    /\ sseCalls' = sseCalls + 1
    /\ UNCHANGED <<_writerIsClosed, _paused, _unsentData, writeCalls, pushed, escaped,
                   autoclose, resClosed>>
    /\ UNCHANGED notSSE

\* node.res emits "close" (the connection is gone), once: the listener
\* `() => this.close()` runs if the constructor registered it.
ResClose ==
    /\ ~resClosed
    /\ resClosed' = TRUE
    /\ IF autoclose THEN close
       ELSE UNCHANGED <<_disposed, _writer, closeCalls, closeCalled>>
    /\ UNCHANGED <<_writerIsClosed, _paused, _unsentData, writeCalls, pushed, escaped,
                   sseOp, sseCalls, autoclose>>
    /\ UNCHANGED notSSE

\* A close() whose _writer.close() rejected resumes in its catch block and
\* sets _disposed.
CloseRejected ==
    /\ closeCalls.rejected > 0
    /\ closeCalls' = [closeCalls EXCEPT !.rejected = @ - 1]
    /\ _disposed' = TRUE
    /\ UNCHANGED <<_writerIsClosed, _paused, _unsentData, _writer, writeCalls,
                   pushed, sseOp, sseCalls, closeCalled, escaped>>
    /\ UNCHANGED <<autoclose, resClosed>>
    /\ UNCHANGED notSSE

\* The readable side is read and the oldest queued write completes. When a
\* flush() awaits that write it resumes and clears the buffer
\* (`this._unsentData = undefined`).
WriteDone ==
    /\ _writer.state \in {"writable", "closing"}
    /\ _writer.queue # <<>>
    /\ _writer' = [_writer EXCEPT !.queue = Tail(@)]
    /\ _unsentData' = IF Head(_writer.queue).byFlush THEN <<>> ELSE _unsentData
    /\ UNCHANGED <<_writerIsClosed, _paused, _disposed, closeCalls, writeCalls,
                   pushed, sseOp, sseCalls, closeCalled, escaped>>
    /\ UNCHANGED <<autoclose, resClosed>>
    /\ UNCHANGED notSSE

\* The requested close completes once every queued write has: the stream is
\* closed, the awaiting close() resumes and sets _disposed, and the
\* `_writer.closed.then` callback of the constructor sets _writerIsClosed.
WriterClosed ==
    /\ _writer.state = "closing"
    /\ _writer.queue = <<>>
    /\ _writer' = [_writer EXCEPT !.state = "closed"]
    /\ closeCalls' = [closeCalls EXCEPT !.awaiting = 0]
    /\ _disposed' = TRUE
    /\ _writerIsClosed' = TRUE
    /\ UNCHANGED <<_paused, _unsentData, writeCalls, pushed, sseOp, sseCalls,
                   closeCalled, escaped>>
    /\ UNCHANGED <<autoclose, resClosed>>
    /\ UNCHANGED notSSE

\* The transport cancels the readable side (the client went away): the
\* writable side becomes errored, queued writes and a pending close reject,
\* and _writer.closed rejects, so its then-callback never runs.
ReadableCancelled ==
    /\ _writer.state \in {"writable", "closing"}
    /\ _writer' = [state |-> "errored", queue |-> <<>>]
    /\ closeCalls' = [awaiting |-> 0,
                      rejected |-> closeCalls.rejected + closeCalls.awaiting]
    /\ UNCHANGED <<_writerIsClosed, _paused, _unsentData, _disposed, writeCalls,
                   pushed, sseOp, sseCalls, closeCalled, escaped>>
    /\ UNCHANGED <<autoclose, resClosed>>
    /\ UNCHANGED notSSE

EventStreamNext ==
    \/ \E input \in PushInputs(Len(pushed)) : Push(input)
    \/ Pause
    \/ Resume
    \/ Flush
    \/ Close
    \/ ResClose
    \/ CloseRejected
    \/ WriteDone
    \/ WriterClosed
    \/ ReadableCancelled

(***************************************************************************)
(* Handler composition: defineEventHandler and _callHandler.               *)
(* A hook is known by its name.                                            *)
(***************************************************************************)
RequestHooks == {"A", "B"}
ResponseHooks == {"X", "Y"}

\* The sequences of at most MaxHooks distinct hooks drawn from names.
HookLists(names) ==
    { l \in UNION { [1..n -> names] : n \in 0..MaxHooks } :
        \A i, j \in 1..Len(l) : i # j => l[i] # l[j] }

\* What a handler object may carry as onRequest / onBeforeResponse: nothing,
\* one hook, or an array of hooks.
HookInputs(names) ==
    {Undefined} \cup { [t |-> "function", name |-> h] : h \in names }
                \cup { [t |-> "array", items |-> l] : l \in HookLists(names) }

\* _normalizeArray(input): undefined stays undefined, an array is kept, a
\* single hook is wrapped.
_normalizeArray(input) ==
    IF input = Undefined THEN Undefined
    ELSE IF input.t = "array" THEN input
    ELSE [t |-> "array", items |-> <<input.name>>]

\* The list a `for ... of` loop of _callHandler walks (`if (hooks.x)` guards it).
HookList(h) == IF h = Undefined THEN <<>> ELSE h.items

\* The body before the handler has returned one.
NoBody == "nobody"

\* A hook that fulfils without assigning response.body.
Kept == "kept"

HandlerIdle ==
    /\ callPc = [phase |-> "idle", idx |-> 0, running |-> FALSE]
    /\ response = [body |-> NoBody]
    /\ callLog = <<>>
    /\ callResult = [kind |-> "pending"]

\* The handler objects of the model, as far as resolve and websocket go:
\* the terminal handler function may carry a resolve function and a
\* websocket bundle of its own (as a handler made by defineWebSocketHandler
\* does), the object may carry websocket hooks.
HandlerObjects ==
    { [handler |-> [t |-> "function", resolve |-> r, websocket |-> w],
       websocket |-> h] :
        r \in {Undefined, [t |-> "function", name |-> "resolve"]},
        w \in {Undefined, [t |-> "object", hooks |-> [t |-> "object", name |-> "W"]]},
        h \in {Undefined, [t |-> "object", name |-> "O"]} }

\* The properties defineEventHandler puts on the function it returns for a
\* handler object.
defineEventHandler(handler) ==
    [resolve |-> handler.handler.resolve,
     websocket |-> [t |-> "object", hooks |-> handler.websocket]]

\* defineEventHandler(handler) for a handler object: the hooks are normalised.
HandlerInit ==
    /\ handlerObject \in HandlerObjects
    /\ _handler = defineEventHandler(handlerObject)
    /\ \E req \in HookInputs(RequestHooks), res \in HookInputs(ResponseHooks) :
         _hooks = [onRequest |-> _normalizeArray(req),
                   onBeforeResponse |-> _normalizeArray(res)]
    /\ HandlerIdle

\* The position _callHandler moves to once the function at (phase, idx) has
\* fulfilled: the next onRequest hook, then the handler, then the
\* onBeforeResponse hooks in list order, then the return.
NextPosition(phase, idx) ==
    IF phase = "onRequest" /\ idx < Len(HookList(_hooks.onRequest))
    THEN [phase |-> "onRequest", idx |-> idx + 1, running |-> FALSE]
    ELSE IF phase = "onRequest"
    THEN [phase |-> "handler", idx |-> 0, running |-> FALSE]
    ELSE IF idx < Len(HookList(_hooks.onBeforeResponse))
    THEN [phase |-> "onBeforeResponse", idx |-> idx + 1, running |-> FALSE]
    ELSE [phase |-> "returned", idx |-> 0, running |-> FALSE]

\* The function _callHandler calls at a position.
FunctionAt(pc) ==
    IF pc.phase = "onRequest" THEN HookList(_hooks.onRequest)[pc.idx]
    ELSE IF pc.phase = "handler" THEN "H"
    ELSE HookList(_hooks.onBeforeResponse)[pc.idx]

\* Mutant of ReturnValue: `return body` for `return response.body`.
ReturnHandlerBody(resp, body) == body

\* `return response.body;`
ReturnValue(resp, body) == resp.body

\* The value the terminal handler returned in this invocation.
HandlerBody ==
    LET at == {i \in 1..Len(callLog) :
                   callLog[i].fn = "H" /\ callLog[i].kind = "settled"}
    IN IF at = {} THEN NoBody ELSE callLog[CHOOSE i \in at : TRUE].set

\* The composed handler is invoked: _callHandler starts.
Invoke ==
    /\ callPc.phase = "idle"
    /\ callPc' = NextPosition("onRequest", 0)
    /\ UNCHANGED <<_hooks, response, callLog, callResult>>
    /\ UNCHANGED <<handlerObject, _handler>>
    /\ UNCHANGED notHandler

\* _callHandler calls the function at its position: `hook(event)`,
\* `handler(event)` or `hook(event, response)`.
CallFunction ==
    /\ callPc.phase \in {"onRequest", "handler", "onBeforeResponse"}
    /\ ~callPc.running
    /\ callPc' = [callPc EXCEPT !.running = TRUE]
    /\ callLog' = Append(callLog, [fn |-> FunctionAt(callPc), kind |-> "call",
                                   saw |-> response.body, set |-> Kept])
    /\ UNCHANGED <<_hooks, response, callResult>>
    /\ UNCHANGED <<handlerObject, _handler>>
    /\ UNCHANGED notHandler

\* The awaited function fulfils. The handler's value becomes the body of the
\* response container; an onBeforeResponse hook may have reassigned
\* response.body (set) or left it alone (Kept).
Fulfil(set) ==
    /\ callPc.running
    /\ set \in (IF callPc.phase = "handler" THEN {"h1", "h2"}
                ELSE IF callPc.phase = "onBeforeResponse"
                     THEN {Kept, FunctionAt(callPc)}
                     ELSE {Kept})
    /\ response' = IF set = Kept THEN response ELSE [body |-> set]
    /\ callLog' = Append(callLog, [fn |-> FunctionAt(callPc), kind |-> "settled",
                                   saw |-> response.body, set |-> set])
    /\ callPc' = NextPosition(callPc.phase, callPc.idx)
    /\ callResult' =
         IF callPc'.phase = "returned"
         THEN [kind |-> "fulfilled",
               value |-> ReturnValue(response', IF callPc.phase = "handler" THEN set
                                                ELSE HandlerBody)]
         ELSE callResult
    /\ UNCHANGED _hooks
    /\ UNCHANGED <<handlerObject, _handler>>
    /\ UNCHANGED notHandler

\* Mutant of Reject: the failure is caught and the sequence goes on.
RejectCaught ==
    /\ callPc.running
    /\ callLog' = Append(callLog, [fn |-> FunctionAt(callPc), kind |-> "threw",
                                   saw |-> response.body, set |-> Kept])
    /\ callPc' = NextPosition(callPc.phase, callPc.idx)
    /\ callResult' = IF callPc'.phase = "returned"
                     THEN [kind |-> "fulfilled", value |-> response.body]
                     ELSE callResult
    /\ UNCHANGED <<_hooks, response>>
    /\ UNCHANGED <<handlerObject, _handler>>
    /\ UNCHANGED notHandler

\* The awaited function throws or rejects: nothing catches it, the
\* invocation rejects with the same failure.
Reject ==
    /\ callPc.running
    /\ callLog' = Append(callLog, [fn |-> FunctionAt(callPc), kind |-> "threw",
                                   saw |-> response.body, set |-> Kept])
    /\ callPc' = [phase |-> "thrown", idx |-> 0, running |-> FALSE]
    /\ callResult' = [kind |-> "rejected", by |-> FunctionAt(callPc)]
    /\ UNCHANGED <<_hooks, response>>
    /\ UNCHANGED <<handlerObject, _handler>>
    /\ UNCHANGED notHandler

HandlerNext ==
    \/ Invoke
    \/ CallFunction
    \/ \E set \in {Kept, "h1", "h2"} \cup ResponseHooks : Fulfil(set)
    \/ Reject

(***************************************************************************)
(* Lazy handlers: defineLazyEventHandler(load).                            *)
(* A load call is known by its index in loadCalls; the handler it produces *)
(* is known by the same index.                                             *)
(***************************************************************************)
\* How a call of load() can come back: it throws synchronously, or it returns
\* a value or a promise.
LoadReturns == {"threw", "returned"}

\* What the value or promise returned by load() settles with: a handler
\* function, a module whose default export is one, a value that is not a
\* function, null/undefined, or a rejection.
LoadSettlements == {"function", "module", "notFunction", "nullish", "rejected"}

LazyInit ==
    /\ _promise = Undefined
    /\ _resolved = Undefined
    /\ loadCalls = <<>>
    /\ lazyCalls = <<>>

\* `.then((r) => r.handler(event))` and the `.then(...)` of resolve(): what a
\* call waiting on the promise of load call `on` becomes once that promise has
\* the given state.
Settle(call, state) ==
    IF state = "fulfilled"
    THEN [call EXCEPT !.state = "served", !.by = call.on]
    ELSE IF state = "rejected"
    THEN [call EXCEPT !.state = "failed"]
    ELSE call

\* resolveHandler() as reached from a call of the given kind, load() coming
\* back as `ret` should it be called.
resolveHandler(kind, ret) ==
    IF _resolved # Undefined
    THEN \* `return Promise.resolve(_resolved)`
         /\ lazyCalls' = Append(lazyCalls, [kind |-> kind, state |-> "served",
                                            on |-> _resolved.handler,
                                            by |-> _resolved.handler])
         /\ UNCHANGED <<_promise, _resolved, loadCalls>>
    ELSE IF _promise = Undefined /\ ret = "threw"
    THEN \* load() throws inside the argument of Promise.resolve: the
         \* assignment to _promise never happens and the call throws.
         /\ loadCalls' = Append(loadCalls, [state |-> "threw", with |-> "thrown"])
         /\ lazyCalls' = Append(lazyCalls, [kind |-> kind, state |-> "threw",
                                            on |-> Len(loadCalls) + 1, by |-> 0])
         /\ UNCHANGED <<_promise, _resolved>>
    ELSE IF _promise = Undefined
    THEN \* `_promise = Promise.resolve(load()).then(...)`
         /\ loadCalls' = Append(loadCalls, [state |-> "pending", with |-> "nothing"])
         /\ _promise' = [load |-> Len(loadCalls) + 1]
         /\ lazyCalls' = Append(lazyCalls, [kind |-> kind, state |-> "waiting",
                                            on |-> Len(loadCalls) + 1, by |-> 0])
         /\ UNCHANGED _resolved
    ELSE \* `return _promise`
         /\ lazyCalls' = Append(lazyCalls,
                Settle([kind |-> kind, state |-> "waiting",
                        on |-> _promise.load, by |-> 0],
                       loadCalls[_promise.load].state))
         /\ UNCHANGED <<_promise, _resolved, loadCalls>>

\* The lazy handler is invoked with an event.
LazyHandle(ret) ==
    /\ Len(lazyCalls) < MaxLazyCalls
    /\ IF _resolved # Undefined
       THEN \* `return _resolved.handler(event)`
            /\ lazyCalls' = Append(lazyCalls, [kind |-> "handle", state |-> "served",
                                               on |-> _resolved.handler,
                                               by |-> _resolved.handler])
            /\ UNCHANGED <<_promise, _resolved, loadCalls>>
       ELSE resolveHandler("handle", ret)
    /\ UNCHANGED notLazy

\* handler.resolve(method, path) is called.
LazyResolve(ret) ==
    /\ Len(lazyCalls) < MaxLazyCalls
    /\ resolveHandler("resolve", ret)
    /\ UNCHANGED notLazy

\* The value returned by load call i settles and the `.then` callback of
\* resolveHandler runs; the callbacks of the calls waiting on it run after it.
LoadSettle(i, with) ==
    /\ i \in 1..Len(loadCalls)
    /\ loadCalls[i].state = "pending"
    /\ LET ok == with \in {"function", "module"}
           state == IF ok THEN "fulfilled" ELSE "rejected"
       IN /\ loadCalls' = [loadCalls EXCEPT ![i] = [state |-> state, with |-> with]]
          /\ _resolved' = IF ok THEN [handler |-> i] ELSE _resolved
          /\ lazyCalls' = [c \in 1..Len(lazyCalls) |->
                             IF lazyCalls[c].state = "waiting" /\ lazyCalls[c].on = i
                             THEN Settle(lazyCalls[c], state)
                             ELSE lazyCalls[c]]
    /\ UNCHANGED _promise
    /\ UNCHANGED notLazy

LazyNext ==
    \/ \E ret \in LoadReturns : LazyHandle(ret)
    \/ \E ret \in LoadReturns : LazyResolve(ret)
    \/ \E i \in 1..MaxLazyCalls, with \in LoadSettlements : LoadSettle(i, with)

(***************************************************************************)
(* Status sanitising (src/unnamed/part_005) and error normalisation        *)
(* (src/unnamed/part_000).                                                 *)
(***************************************************************************)
\* DISALLOWED_STATUS_CHARS = /[^\u0009 -~]/g
Allowed(code) == code = 9 \/ (code >= 32 /\ code <= 126)

\* sanitizeStatusMessage(statusMessage): every disallowed character removed.
sanitizeStatusMessage(statusMessage) ==
    Str(SelectSeq(statusMessage.s, Allowed))

IsDigit(code) == code >= 48 /\ code <= 57

\* The value of the longest prefix of decimal digits of codes, acc being the
\* value read so far.
RECURSIVE Digits(_, _)
Digits(codes, acc) ==
    IF codes = <<>> \/ ~IsDigit(Head(codes)) THEN acc
    ELSE Digits(Tail(codes), acc * 10 + (Head(codes) - 48))

\* Number.parseInt(s, 10): an optional minus sign, then decimal digits; NaN
\* when no digit is found.
ParseInt(codes) ==
    LET neg == codes # <<>> /\ Head(codes) = 45
        rest == IF neg THEN Tail(codes) ELSE codes
    IN IF rest = <<>> \/ ~IsDigit(Head(rest)) THEN NaN
       ELSE Num(IF neg THEN 0 - Digits(rest, 0) ELSE Digits(rest, 0))

\* The default of the parameter defaultStatusCode of sanitizeStatusCode.
DefaultStatusCode == 200

\* The initial value of H3Error.statusCode, and the default toJSON passes.
ErrorStatusCode == 500

\* sanitizeStatusCode(statusCode, defaultStatusCode)
sanitizeStatusCode(statusCode, defaultStatusCode) ==
    IF ~Truthy(statusCode) THEN Num(defaultStatusCode)
    ELSE LET n == IF statusCode.t = "string" THEN ParseInt(statusCode.s)
                  ELSE statusCode
         IN IF n.t = "NaN" THEN n
            ELSE IF n.n < 100 \/ n.n > 999 THEN Num(defaultStatusCode)
            ELSE n

\* `new H3Error(message, { cause })`: the field initialisers of the class and
\* its constructor.
NewH3Error(message, cause) ==
    [t |-> "H3Error", message |-> message, statusCode |-> Num(ErrorStatusCode),
     fatal |-> Bool(FALSE), unhandled |-> Bool(FALSE),
     statusMessage |-> Undefined, statusText |-> Undefined, status |-> Undefined,
     data |-> Undefined, cause |-> cause, stack |-> Str(<<>>), stackFrom |-> "own"]

\* H3Error.toJSON()
toJSON(err) ==
    [message |-> err.message,
     statusCode |-> sanitizeStatusCode(err.statusCode, ErrorStatusCode),
     statusMessage |-> IF Truthy(err.statusMessage)
                       THEN sanitizeStatusMessage(err.statusMessage)
                       ELSE Undefined,
     data |-> err.data]

\* A recognition by class identity (`input instanceof H3Error`): an instance
\* of another copy of the library is not recognised.
isErrorOfThisClass(input) == input.t = "H3Error" /\ "realm" \notin DOMAIN input

\* isError(input): `input?.constructor?.__h3_error__ === true`. The tag
\* "H3Error" stands for a constructor that carries the marker.
isError(input) == input.t = "H3Error"

\* hasProp(obj, prop) for prop = "stack": `prop in obj`, false when that throws
\* (a primitive on the right of `in`).
hasProp(obj) == Get(obj, "stack").t # "undefined"

\* The `if (hasProp(input, "stack"))` block: a getter is defined on err.stack;
\* if Object.defineProperty throws the stack is copied; if that throws too
\* (reading input.stack throws, or err.stack cannot be assigned) it is left.
WithStack(err, input, defineThrows, assignThrows) ==
    IF ~hasProp(input) THEN err
    ELSE IF ~defineThrows THEN [err EXCEPT !.stack = input.stack, !.stackFrom = "getter"]
    ELSE IF ~assignThrows /\ input.stack.t # "throws"
    THEN [err EXCEPT !.stack = input.stack, !.stackFrom = "copied"]
    ELSE err

\* `if (input.data) { err.data = input.data }`
WithData(err, input) ==
    IF Truthy(Get(input, "data")) THEN [err EXCEPT !.data = Get(input, "data")] ELSE err

\* The statusCode block: only a value of type number is applied, sanitised
\* with the default of sanitizeStatusCode.
WithStatusCode(err, input, cause) ==
    LET statusCode == Coalesce(Get(input, "statusCode"),
                       Coalesce(Get(input, "status"),
                        Coalesce(Get(cause, "statusCode"), Get(cause, "status"))))
    IN IF TypeOf(statusCode) = "number"
       THEN [err EXCEPT !.statusCode = sanitizeStatusCode(statusCode, DefaultStatusCode)]
       ELSE err

\* The statusMessage block.
WithStatusMessage(err, input, cause) ==
    LET statusMessage == Coalesce(Get(input, "statusMessage"),
                          Coalesce(Get(input, "statusText"),
                           Coalesce(Get(cause, "statusMessage"), Get(cause, "statusText"))))
    IN IF Truthy(statusMessage)
       THEN [err EXCEPT !.statusMessage = sanitizeStatusMessage(statusMessage)]
       ELSE err

\* The fatal and unhandled blocks.
WithFlags(err, input, cause) ==
    LET fatal == Coalesce(Get(input, "fatal"), Get(cause, "fatal"))
        unhandled == Coalesce(Get(input, "unhandled"), Get(cause, "unhandled"))
        e1 == IF fatal.t # "undefined" THEN [err EXCEPT !.fatal = fatal] ELSE err
    IN IF unhandled.t # "undefined" THEN [e1 EXCEPT !.unhandled = unhandled] ELSE e1

Returned(value) == [called |-> TRUE, threw |-> FALSE, value |-> value]

Thrown(value) == [called |-> TRUE, threw |-> TRUE, value |-> value]

\* createError(input): what the call comes back with.
createError(input, defineThrows, assignThrows) ==
    IF TypeOf(input) = "string" THEN Returned(NewH3Error(input, Undefined))
    ELSE IF isError(input) THEN Returned(input)
    ELSE IF Nullish(input)
    THEN \* `input.cause` on null or undefined
         Thrown([t |-> "TypeError"])
    ELSE LET cause == Get(input, "cause")
             err == NewH3Error(
                      Coalesce(Get(input, "message"),
                               Coalesce(Get(input, "statusMessage"), Str(<<>>))),
                      Or(cause, input))
         IN Returned(
              WithFlags(
                WithStatusMessage(
                  WithStatusCode(
                    WithData(WithStack(err, input, defineThrows, assignThrows), input),
                    input, cause),
                  input, cause),
                input, cause))

\* The values createError is called with in the model.
CauseInputs ==
    { Undefined, Null,
      [t |-> "object", statusCode |-> Num(503), statusText |-> Str(<<85>>),
       fatal |-> Bool(TRUE)] }

ObjectInputs ==
    { [t |-> "object", message |-> m, statusMessage |-> sm, statusText |-> st,
       statusCode |-> sc, status |-> s, cause |-> c, stack |-> sk, data |-> d,
       fatal |-> f, unhandled |-> u] :
        m \in {Undefined, Str(<<98>>)},
        sm \in {Undefined, Str(<<79, 10, 75>>)},
        st \in {Undefined, Str(<<84>>)},
        sc \in {Undefined, Num(404), Num(99), Num(1000), Str(<<52, 48, 52>>)},
        s \in {Undefined, Num(418)},
        c \in CauseInputs,
        sk \in {Undefined, Str(<<115>>), [t |-> "throws"]},
        d \in {Undefined, Num(0), Num(7)},
        f \in {Undefined, Bool(TRUE)},
        u \in {Undefined, Bool(TRUE)} }

\* H3Error instances: created by this copy of the library, or by another
\* copy of it (another realm: the class differs, its constructor carries the
\* same marker), with the statusCode application code assigned to them.
H3ErrorInputs ==
    { [NewH3Error(Str(<<98>>), Undefined) EXCEPT !.statusCode = sc] :
        sc \in {Num(404), Num(1000), Str(<<120>>)} }
    \cup { [t |-> "H3Error", realm |-> "other", message |-> Str(<<98>>),
            statusCode |-> Num(404), fatal |-> Bool(FALSE), unhandled |-> Bool(FALSE),
            statusMessage |-> Undefined, data |-> Undefined, cause |-> Undefined,
            stack |-> Str(<<115>>)] }

\* Plain Error instances: `new Error("b")`. What the stack holds is up to the
\* engine: the frames alone (" s"), or a first line with the message before
\* them ("b", newline, " s").
ErrorInstances ==
    { [t |-> "Error", message |-> Str(<<98>>), stack |-> sk] :
        sk \in {Str(<<32, 115>>), Str(<<98, 10, 32, 115>>)} }

ErrorInputs ==
    { Undefined, Null, Num(5), Num(0), NaN, Bool(FALSE), Str(<<>>), Str(<<98>>) }
    \cup H3ErrorInputs \cup ErrorInstances \cup ObjectInputs

NotCalled == [called |-> FALSE]

ErrorRest ==
    /\ errInput = Undefined
    /\ errOutput = NotCalled
    /\ errAgain = NotCalled
    /\ errJSON = NotCalled

ErrorInit ==
    /\ errInput \in ErrorInputs
    /\ errOutput = NotCalled
    /\ errAgain = NotCalled
    /\ errJSON = NotCalled

\* createError(errInput) is called; whether Object.defineProperty and the
\* assignment of err.stack throw is up to the runtime.
CallCreateError ==
    /\ ~errOutput.called
    /\ \E defineThrows, assignThrows \in BOOLEAN :
         errOutput' = createError(errInput, defineThrows, assignThrows)
    /\ UNCHANGED <<errInput, errAgain, errJSON>>
    /\ UNCHANGED notError

\* createError is called on the error the first call returned.
CallCreateErrorAgain ==
    /\ errOutput.called /\ ~errOutput.threw
    /\ ~errAgain.called
    /\ \E defineThrows, assignThrows \in BOOLEAN :
         errAgain' = createError(errOutput.value, defineThrows, assignThrows)
    /\ UNCHANGED <<errInput, errOutput, errJSON>>
    /\ UNCHANGED notError

\* toJSON() is called on the error the first call returned.
CallToJSON ==
    /\ errOutput.called /\ ~errOutput.threw
    /\ ~errJSON.called
    /\ errJSON' = Returned(toJSON(errOutput.value))
    /\ UNCHANGED <<errInput, errOutput, errAgain>>
    /\ UNCHANGED notError

ErrorNext ==
    \/ CallCreateError
    \/ CallCreateErrorAgain
    \/ CallToJSON

(***************************************************************************)
(* The response state of an event (WebEventResponse, src/unnamed/part_008) *)
(* and response preparation (src/src/adapters.ts).                         *)
(* A Headers object maps every header name of the model, in lower case, to *)
(* the values it holds for it in the order they were added, none when it   *)
(* has no such header.                                                     *)
(***************************************************************************)
HeaderNames == {"content-type", "content-length", "x-a",
                "cache-control", "x-accel-buffering", "connection"}

\* The header names application code passes, as it spells them.
SpelledNames == {"content-type", "content-length", "x-a", "X-A"}

\* The byte-lowercased name a Headers object files a header under.
Lower(name) == IF name = "X-A" THEN "x-a" ELSE name

Absent == <<>>

NoHeaders == [n \in HeaderNames |-> Absent]

\* `new HeadersObject()`: the plain object behind _headersInit, as its own
\* properties in the order they were created.
HeadersObject(entries) == [t |-> "HeadersObject", entries |-> entries]

\* A Headers object holding h.
Headers(h) == [t |-> "Headers", h |-> h]

\* Headers.prototype.set, append and delete, on what the object holds.
Headers_set(h, name, value) == [h EXCEPT ![Lower(name)] = <<value>>]

Headers_append(h, name, value) == [h EXCEPT ![Lower(name)] = Append(@, value)]

Headers_delete(h, name) == [h EXCEPT ![Lower(name)] = Absent]

\* `obj[name] = value` on a plain object: an own property of that very name
\* is overwritten in place, a new one is created last.
Assign(entries, name, value) ==
    IF \E i \in 1..Len(entries) : entries[i].name = name
    THEN [i \in 1..Len(entries) |->
            IF entries[i].name = name THEN [name |-> name, value |-> value]
            ELSE entries[i]]
    ELSE Append(entries, [name |-> name, value |-> value])

\* The "fill" of `new Headers(init)` for a record: every own property is
\* appended in order.
RECURSIVE Fill(_, _)
Fill(h, entries) ==
    IF entries = <<>> THEN h
    ELSE Fill(Headers_append(h, Head(entries).name, Head(entries).value), Tail(entries))

\* What `new Headers(init)` holds: nothing for undefined, the fill of a
\* record, the entries of a Headers object.
HeaderMap(store) ==
    IF store.t = "undefined" THEN NoHeaders
    ELSE IF store.t = "HeadersObject" THEN Fill(NoHeaders, store.entries)
    ELSE store.h

\* event.response as one record.
Res == [status |-> status, statusText |-> statusText,
        _headersInit |-> _headersInit, _headers |-> _headers]

\* WebEventResponse.setHeader(name, value)
setHeader(res, name, value) ==
    IF Truthy(res._headers)
    THEN [res EXCEPT !._headers = Headers(Headers_set(res._headers.h, name, value))]
    ELSE [res EXCEPT !._headersInit =
              HeadersObject(Assign(IF Truthy(res._headersInit)
                                   THEN res._headersInit.entries ELSE <<>>,
                                   name, value))]

\* The getter WebEventResponse.headers: the Headers object is created from
\* _headersInit on first access.
headers(res) ==
    IF ~Truthy(res._headers)
    THEN [res EXCEPT !._headers = Headers(HeaderMap(res._headersInit))]
    ELSE res

\* `event.response.headers.delete(name)`
deleteHeader(res, name) ==
    LET r == headers(res)
    IN [r EXCEPT !._headers = Headers(Headers_delete(r._headers.h, name))]

\* noContent(event, code)
noContent(res, code) ==
    LET c == IF ~Truthy(code) /\ Truthy(res.status) /\ res.status # Num(200)
             THEN res.status ELSE code
        r == [res EXCEPT !.status = sanitizeStatusCode(c, 204)]
    IN IF r.status = Num(204) THEN deleteHeader(r, "content-length") ELSE r

NullStatuses == {100, 101, 102, 204, 205, 304}

\* isNullStatus(status)
isNullStatus(s) == Truthy(s) /\ s.n \in NullStatuses

JsonType == "application/json; charset=utf-8"

\* A number as the header value `n.toString()` of the sizes of the model.
SizeText(n) == IF n = 3 THEN "3" ELSE IF n = 7 THEN "7" ELSE "0"

\* isJSONSerializable(val, typeof val): a plain object, an array, a number or
\* a boolean; not a bigint, a Blob, a stream, a symbol or a function.
isJSONSerializable(v) == v.t \in {"object", "array", "number", "NaN", "boolean"}

\* `s.split(sep)` for a separator of one character: the pieces of codes
\* between the separators, `piece` being the piece read so far.
RECURSIVE Split(_, _, _)
Split(codes, sep, piece) ==
    IF codes = <<>> THEN <<piece>>
    ELSE IF Head(codes) = sep THEN <<piece>> \o Split(Tail(codes), sep, <<>>)
    ELSE Split(Tail(codes), sep, Append(piece, Head(codes)))

IsSpace(code) == code \in {9, 10, 11, 12, 13, 32}

\* `l.trim()`
RECURSIVE TrimStart(_)
TrimStart(codes) ==
    IF codes # <<>> /\ IsSpace(Head(codes)) THEN TrimStart(Tail(codes)) ELSE codes

RECURSIVE TrimEnd(_)
TrimEnd(codes) ==
    IF codes # <<>> /\ IsSpace(codes[Len(codes)])
    THEN TrimEnd(SubSeq(codes, 1, Len(codes) - 1))
    ELSE codes

Trim(codes) == TrimEnd(TrimStart(codes))

\* `error.stack.split("\n").map((l) => l.trim())`
StackLines(stack) ==
    LET pieces == Split(stack.s, 10, <<>>)
    IN [t |-> "array", items |-> [i \in 1..Len(pieces) |-> Str(Trim(pieces[i]))]]

\* prepareErrorResponseBody with the stack put in the body whatever
\* config.debug says.
prepareErrorResponseBodyWithStack(v, res, dbg) ==
    LET error == createError(v, FALSE, FALSE).value
        r == setHeader([res EXCEPT !.status = error.statusCode,
                                   !.statusText = error.statusMessage],
                       "content-type", JsonType)
    IN [body |-> [t |-> "json", pretty |-> FALSE,
                  of |-> [statusCode |-> error.statusCode,
                          statusMessage |-> error.statusMessage,
                          data |-> error.data,
                          stack |-> IF Truthy(error.stack)
                                    THEN StackLines(error.stack)
                                    ELSE Undefined]],
        res |-> r]

\* prepareErrorResponseBody(val, event, config): the body (the object handed
\* to JSON.stringify) and the response state it leaves behind.
\* Object.defineProperty does not throw on the stack of the fresh error.
prepareErrorResponseBody(v, res, dbg) ==
    LET error == createError(v, FALSE, FALSE).value
        r == setHeader([res EXCEPT !.status = error.statusCode,
                                   !.statusText = error.statusMessage],
                       "content-type", JsonType)
    IN [body |-> [t |-> "json", pretty |-> FALSE,
                  of |-> [statusCode |-> error.statusCode,
                          statusMessage |-> error.statusMessage,
                          data |-> error.data,
                          stack |-> IF dbg /\ Truthy(error.stack)
                                    THEN StackLines(error.stack)
                                    ELSE Undefined]],
        res |-> r]

\* The statusMessage of the 404 of kNotFound and of the 500 of an unsendable
\* value, as character codes ("?" and "!").
NotFoundMessage == Str(<<63>>)

CannotSendMessage == Str(<<33>>)

\* prepareResponseBody(val, event, config): the body and the response state
\* it leaves behind.
prepareResponseBody(v, res, dbg) ==
    IF Nullish(v) THEN [body |-> Str(<<>>), res |-> res]
    ELSE IF v.t = "kNotFound"
    THEN prepareErrorResponseBody([t |-> "object", statusCode |-> Num(404),
                                   statusMessage |-> NotFoundMessage], res, dbg)
    ELSE IF v.t = "string" THEN [body |-> v, res |-> res]
    ELSE IF v.t = "Uint8Array"
    THEN [body |-> v, res |-> setHeader(res, "content-length", SizeText(v.byteLength))]
    ELSE IF v.t \in {"Error", "H3Error"} THEN prepareErrorResponseBody(v, res, dbg)
    ELSE IF isJSONSerializable(v)
    THEN [body |-> [t |-> "json", pretty |-> dbg, of |-> v],
          res |-> setHeader(res, "content-type", JsonType)]
    ELSE IF v.t = "bigint"
    THEN [body |-> [t |-> "decimal", of |-> v],
          res |-> setHeader(res, "content-type", JsonType)]
    ELSE IF v.t = "Blob"
    THEN [body |-> [t |-> "stream", of |-> v],
          res |-> setHeader(setHeader(res, "content-type", v.type),
                            "content-length", SizeText(v.size))]
    ELSE IF v.t \in {"symbol", "function"}
    THEN prepareErrorResponseBody([t |-> "object", statusCode |-> Num(500),
                                   statusMessage |-> CannotSendMessage], res, dbg)
    ELSE [body |-> v, res |-> res]

\* `new Response(body, { status, statusText, headers })`, a fresh object
\* (id 0); the status is 200 when the init carries none.
NewResponse(body, s, text, store) ==
    [t |-> "Response", id |-> 0,
     status |-> IF s.t = "undefined" THEN Num(200) ELSE s,
     statusText |-> IF text.t = "undefined" THEN Str(<<>>) ELSE text,
     headers |-> HeaderMap(store), body |-> body]

\* prepareResponse(val, event, config): the Response returned and the
\* response state left behind.
prepareResponse(v, m, res, dbg) ==
    LET isHead == m = "HEAD"
    IN IF v.t = "kHandled"
       THEN [response |-> NewResponse(Null, Undefined, Undefined, Undefined), res |-> res]
       ELSE IF v.t = "Response"
       THEN LET hs == Or(res._headers, res._headersInit)
            IN IF ~Truthy(res.status) /\ ~Truthy(res.statusText) /\ ~Truthy(hs)
               THEN [response |-> v, res |-> res]
               ELSE [response |->
                       NewResponse(IF isHead \/ isNullStatus(res.status)
                                   THEN Null ELSE v.body,
                                   Or(res.status, v.status),
                                   Or(res.statusText, v.statusText),
                                   Or(hs, Headers(v.headers))),
                     res |-> res]
       ELSE LET b == prepareResponseBody(v, res, dbg)
                r == b.res
            IN [response |->
                  NewResponse(IF isHead \/ isNullStatus(r.status) THEN Null ELSE b.body,
                              r.status, r.statusText, Or(r._headers, r._headersInit)),
                res |-> r]

\* The values a handler returns in the model. A Response whose own status
\* is a null-body status has no body (its constructor accepts none).
TextPlain == "text/plain"

Responses ==
    { [t |-> "Response", id |-> 1, status |-> Num(200), statusText |-> Str(<<79>>),
       headers |-> [NoHeaders EXCEPT !["content-type"] = <<TextPlain>>, !["x-a"] = <<"r">>],
       body |-> Str(<<114>>)],
      [t |-> "Response", id |-> 2, status |-> Num(204), statusText |-> Str(<<>>),
       headers |-> NoHeaders, body |-> Null],
      [t |-> "Response", id |-> 3, status |-> Num(404), statusText |-> Str(<<78>>),
       headers |-> [NoHeaders EXCEPT !["content-type"] = <<TextPlain>>],
       body |-> Str(<<110>>)] }

\* The errors a handler throws or returns: plain Error instances, and
\* H3Error instances as createError made them or with a statusCode assigned
\* to them afterwards.
Errors ==
    ErrorInstances
    \cup { [NewH3Error(Str(<<98>>), Undefined) EXCEPT !.statusCode = Num(404),
                                                      !.statusMessage = Str(<<78>>)],
           [NewH3Error(Str(<<98>>), Undefined) EXCEPT !.statusCode = Num(1000)] }

Values ==
    { [t |-> "kHandled"], [t |-> "kNotFound"], Null, Undefined,
      Str(<<104, 105>>), [t |-> "Uint8Array", byteLength |-> 3],
      [t |-> "object", a |-> Num(1)], Num(7), Bool(TRUE),
      [t |-> "bigint", n |-> 7], [t |-> "Blob", type |-> "image/png", size |-> 7],
      [t |-> "symbol"], [t |-> "function"], [t |-> "ReadableStream"] }
    \cup Responses \cup Errors

\* The header values setEventStreamHeaders writes.
EventStreamType == "text/event-stream"

NoCache == "private, no-cache, no-store, no-transform, must-revalidate, max-age=0"

\* isHttp2Request(event): the request carries a pseudo-header.
isHttp2Request(reqHeaders) == ":path" \in reqHeaders \/ ":method" \in reqHeaders

\* setEventStreamHeaders(event)
setEventStreamHeaders(res, reqHeaders) ==
    LET r == headers(res)
        h == Headers_set(Headers_set(Headers_set(r._headers.h,
                                                 "content-type", EventStreamType),
                                     "cache-control", NoCache),
                         "x-accel-buffering", "no")
    IN [r EXCEPT !._headers =
           Headers(IF ~isHttp2Request(reqHeaders)
                   THEN Headers_set(h, "connection", "keep-alive")
                   ELSE h)]

\* this._transformStream.readable of the EventStream of the event.
Readable == [t |-> "ReadableStream", of |-> "_transformStream"]

\* send() without the test of _handled: the headers and the status are
\* written by every call.
sendUnguarded(res, handled, reqHeaders) ==
    [returned |-> Readable,
     res |-> [setEventStreamHeaders(res, reqHeaders) EXCEPT !.status = Num(200)],
     _handled |-> TRUE]

\* EventStream.send(): what the call returns, and the response state and
\* _handled it leaves behind.
send(res, handled, reqHeaders) ==
    IF handled THEN [returned |-> Readable, res |-> res, _handled |-> handled]
    ELSE [returned |-> Readable,
          res |-> [setEventStreamHeaders(res, reqHeaders) EXCEPT !.status = Num(200)],
          _handled |-> TRUE]

\* The value application code gives a header of the model.
SetupValue(name) ==
    IF name = "content-type" THEN "text/html"
    ELSE IF name = "content-length" THEN "9"
    ELSE IF name = "X-A" THEN "A"
    ELSE "a"

ResponseRest ==
    /\ status = Undefined
    /\ statusText = Undefined
    /\ _headersInit = Undefined
    /\ _headers = Undefined
    /\ setup = 0
    /\ val = Undefined
    /\ before = Undefined
    /\ prepared = Undefined
    /\ applied = NoHeaders
    /\ touched = {}
    /\ _handled = FALSE
    /\ sendCalls = <<>>

\* A new H3WebEvent: nothing is set on its response. The request came over
\* HTTP/1.x or over HTTP/2.
ResponseInit ==
    /\ method \in {"GET", "HEAD"}
    /\ debug \in BOOLEAN
    /\ requestHeaders \in {{}, {":path", ":method"}}
    /\ ResponseRest

\* The response state becomes res through one call of application code; h is
\* what one Headers object holds after the same call, names the header
\* names the call sets, appends to or deletes.
Becomes(res, h, names) ==
    /\ prepared = Undefined
    /\ setup < MaxSetup
    /\ setup' = setup + 1
    /\ \E r \in {res} :
         /\ status' = r.status
         /\ statusText' = r.statusText
         /\ _headersInit' = r._headersInit
         /\ _headers' = r._headers
    /\ applied' = h
    /\ touched' = touched \cup {Lower(n) : n \in names}
    /\ UNCHANGED <<method, debug, val, before, prepared, requestHeaders, _handled, sendCalls>>
    /\ UNCHANGED notResponse

\* `event.response.status = n`
SetStatus(n) == Becomes([Res EXCEPT !.status = Num(n)], applied, {})

\* `event.response.statusText = text`
SetStatusText(text) == Becomes([Res EXCEPT !.statusText = text], applied, {})

\* `event.response.setHeader(name, value)`
SetHeader(name) ==
    Becomes(setHeader(Res, name, SetupValue(name)),
            Headers_set(applied, name, SetupValue(name)), {name})

\* `event.response.headers.get(name)` or `.has(name)`: the getter runs.
ReadHeaders == Becomes(headers(Res), applied, {})

\* `event.response.headers.set(name, value)`
HeadersSet(name) ==
    Becomes(LET r == headers(Res)
            IN [r EXCEPT !._headers =
                   Headers(Headers_set(r._headers.h, name, SetupValue(name)))],
            Headers_set(applied, name, SetupValue(name)), {name})

\* `event.response.headers.append(name, value)`
HeadersAppend(name) ==
    Becomes(LET r == headers(Res)
            IN [r EXCEPT !._headers =
                   Headers(Headers_append(r._headers.h, name, SetupValue(name)))],
            Headers_append(applied, name, SetupValue(name)), {name})

\* `event.response.headers.delete(name)`
HeadersDelete(name) ==
    Becomes(deleteHeader(Res, name), Headers_delete(applied, name), {name})

\* `noContent(event, code)`: it deletes content-length when the status it
\* sets is 204.
NoContent(code) ==
    Becomes(noContent(Res, code),
            IF noContent(Res, code).status = Num(204)
            THEN Headers_delete(applied, "content-length")
            ELSE applied,
            IF noContent(Res, code).status = Num(204) THEN {"content-length"} ELSE {})

\* `eventStream.send()` is called.
Send ==
    /\ prepared = Undefined
    /\ Len(sendCalls) < MaxSends
    /\ \E out \in {send(Res, _handled, requestHeaders)} :
          /\ sendCalls' = Append(sendCalls, out.returned)
          /\ _handled' = out._handled
          /\ status' = out.res.status
          /\ statusText' = out.res.statusText
          /\ _headersInit' = out.res._headersInit
          /\ _headers' = out.res._headers
    /\ applied' = IF _handled THEN applied
                  ELSE setEventStreamHeaders([Res EXCEPT !._headers = Headers(applied)],
                                             requestHeaders)._headers.h
    /\ touched' = IF _handled THEN touched
                  ELSE touched \cup {"content-type", "cache-control", "x-accel-buffering"}
                               \cup (IF isHttp2Request(requestHeaders) THEN {}
                                     ELSE {"connection"})
    /\ UNCHANGED <<method, debug, setup, val, before, prepared, requestHeaders>>
    /\ UNCHANGED notResponse

\* The handler has returned v: prepareResponse(v, event, config) runs.
Respond(v) ==
    /\ prepared = Undefined
    /\ \E out \in {prepareResponse(v, method, Res, debug)} :
          /\ prepared' = out.response
          /\ status' = out.res.status
          /\ statusText' = out.res.statusText
          /\ _headersInit' = out.res._headersInit
          /\ _headers' = out.res._headers
    /\ val' = v
    /\ before' = Res
    /\ UNCHANGED <<method, debug, setup, applied, touched, requestHeaders, _handled,
                   sendCalls>>
    /\ UNCHANGED notResponse

ResponseNext ==
    \/ \E n \in {204, 404} : SetStatus(n)
    \/ SetStatusText(Str(<<84>>))
    \/ \E name \in SpelledNames : SetHeader(name)
    \/ ReadHeaders
    \/ \E name \in SpelledNames : HeadersSet(name)
    \/ \E name \in SpelledNames : HeadersAppend(name)
    \/ \E name \in SpelledNames : HeadersDelete(name)
    \/ \E code \in {Undefined, Num(204), Num(304)} : NoContent(code)
    \/ Send
    \/ \E v \in Values : Respond(v)

(***************************************************************************)
(* The URL accessors of H3WebEvent (src/unnamed/part_008, 98-283): url,    *)
(* path, pathname, query and queryString, with their caches.               *)
(* Texts are sequences of character codes: ":" 58, "/" 47, "?" 63, "#" 35, *)
(* "&" 38, "=" 61. Indices are counted from 0 as in JavaScript.            *)
(***************************************************************************)
\* `s.indexOf(sub, from)`: -1 when sub does not occur at or after from.
IndexOf(s, sub, from) ==
    LET at == {i \in from..(Len(s) - Len(sub)) : SubSeq(s, i + 1, i + Len(sub)) = sub}
    IN IF at = {} THEN -1 ELSE CHOOSE i \in at : \A j \in at : i <= j

\* `s.slice(from, to)`; `s.slice(from)` is Slice(s, from, Len(s)).
Slice(s, from, to) == SubSeq(s, from + 1, to)

\* `new URLSearchParams(init)`: a leading "?" is dropped, the rest is split
\* at "&", empty pieces are skipped, and each piece is split at its first "=".
URLSearchParams(init) ==
    LET text == IF init # <<>> /\ Head(init) = 63 THEN Tail(init) ELSE init
        pieces == SelectSeq(Split(text, 38, <<>>), LAMBDA piece : piece # <<>>)
        Entry(piece) ==
            LET eq == IndexOf(piece, <<61>>, 0)
            IN IF eq = -1 THEN <<piece, <<>>>>
               ELSE <<Slice(piece, 0, eq), Slice(piece, eq + 1, Len(piece))>>
    IN [t |-> "URLSearchParams", entries |-> [i \in 1..Len(pieces) |-> Entry(pieces[i])]]

\* The index of the first character of text at or after from that is one of
\* stops; the length of text when there is none.
RECURSIVE FirstOf(_, _, _)
FirstOf(text, stops, from) ==
    IF from >= Len(text) \/ text[from + 1] \in stops THEN from
    ELSE FirstOf(text, stops, from + 1)

\* `new URL(text)` for an http URL whose path has no dot segment and no
\* character that is percent-encoded: the host ends at the first "/", "?" or
\* "#", the path at the first "?" or "#", the query at the first "#"; an
\* empty path is "/", an empty query gives an empty search.
ParseURL(text) ==
    LET hostEnd == FirstOf(text, {47, 63, 35}, IndexOf(text, <<58, 47, 47>>, 0) + 3)
    IN LET pathEnd == FirstOf(text, {63, 35}, hostEnd)
       IN LET queryText ==
                  IF pathEnd < Len(text) /\ text[pathEnd + 1] = 63
                  THEN Slice(text, pathEnd + 1, FirstOf(text, {35}, pathEnd))
                  ELSE <<>>
          IN LET search == IF queryText = <<>> THEN <<>> ELSE <<63>> \o queryText
             IN [t |-> "URL",
                 pathname |-> Str(IF pathEnd = hostEnd THEN <<47>>
                                  ELSE Slice(text, hostEnd, pathEnd)),
                 search |-> Str(search),
                 searchParams |-> URLSearchParams(search)]

\* The caches of the event as one record.
Ev == [_url |-> _url, _pathname |-> _pathname, _urlqindex |-> _urlqindex,
       _query |-> _query, _queryString |-> _queryString]

\* Each getter gives the value it returns (v) and the caches it leaves (ev).
\* get url()
url(ev) ==
    IF ~Truthy(ev._url)
    THEN LET parsed == ParseURL(requestUrl)
         IN [v |-> parsed, ev |-> [ev EXCEPT !._url = parsed]]
    ELSE [v |-> ev._url, ev |-> ev]

\* get pathname()
pathname(ev) ==
    IF Truthy(ev._url) THEN [v |-> ev._url.pathname, ev |-> ev]
    ELSE IF ~Truthy(ev._pathname)
    THEN LET protoIndex == IndexOf(requestUrl, <<58, 47, 47>>, 0)
             pIndex == IndexOf(requestUrl, <<47>>, protoIndex + 4)
             qIndex == IndexOf(requestUrl, <<63>>, pIndex)
             sliced == Str(Slice(requestUrl, pIndex,
                                 IF qIndex = -1 THEN Len(requestUrl) ELSE qIndex))
         IN IF protoIndex = -1 \/ pIndex = -1
            THEN [v |-> url(ev).v.pathname, ev |-> url(ev).ev]
            ELSE [v |-> sliced,
                  ev |-> [ev EXCEPT !._urlqindex = Num(qIndex), !._pathname = sliced]]
    ELSE [v |-> ev._pathname, ev |-> ev]

\* get queryString()
queryString(ev) ==
    IF Truthy(ev._url) THEN [v |-> ev._url.search, ev |-> ev]
    ELSE IF ~Truthy(ev._queryString)
    THEN IF ev._urlqindex = Num(-1)
         THEN [v |-> Str(<<>>), ev |-> [ev EXCEPT !._queryString = Str(<<>>)]]
         ELSE IF ev._urlqindex = Undefined
         THEN [v |-> url(ev).v.search,
               ev |-> [url(ev).ev EXCEPT !._queryString = url(ev).v.search]]
         ELSE LET sliced == Str(Slice(requestUrl, ev._urlqindex.n, Len(requestUrl)))
              IN [v |-> sliced, ev |-> [ev EXCEPT !._queryString = sliced]]
    ELSE [v |-> ev._queryString, ev |-> ev]

\* get query()
query(ev) ==
    IF Truthy(ev._url) THEN [v |-> ev._url.searchParams, ev |-> ev]
    ELSE IF ~Truthy(ev._query)
    THEN LET q == queryString(ev)
             params == URLSearchParams(q.v.s)
         IN [v |-> params, ev |-> [q.ev EXCEPT !._query = params]]
    ELSE [v |-> ev._query, ev |-> ev]

\* get path()
path(ev) ==
    LET p == pathname(ev)
        q == queryString(p.ev)
    IN [v |-> Str(p.v.s \o q.v.s), ev |-> q.ev]

\* "http://h", the origin of the request URLs of the model.
Origin == <<104, 116, 116, 112, 58, 47, 47, 104>>

\* What follows the origin: nothing, "/a", "/a?", "/a?x=1", "/a?x=1&y",
\* "?x=1", "/a#f" and "/a?x=1#f".
RequestTargets ==
    { <<>>, <<47, 97>>, <<47, 97, 63>>, <<47, 97, 63, 120, 61, 49>>,
      <<47, 97, 63, 120, 61, 49, 38, 121>>, <<63, 120, 61, 49>>,
      <<47, 97, 35, 102>>, <<47, 97, 63, 120, 61, 49, 35, 102>> }

UrlRest ==
    /\ _url = Undefined
    /\ _pathname = Undefined
    /\ _urlqindex = Undefined
    /\ _query = Undefined
    /\ _queryString = Undefined
    /\ urlReads = <<>>

UrlAtRest == requestUrl = Origin /\ UrlRest

\* `new H3WebEvent(request)`: no cache is filled.
UrlInit ==
    /\ requestUrl \in {Origin \o target : target \in RequestTargets}
    /\ UrlRest

\* An accessor is read: the value goes to the log, the caches are updated.
Read(accessor, got) ==
    /\ Len(urlReads) < MaxReads
    /\ \E r \in {got} :
         /\ urlReads' = Append(urlReads, [accessor |-> accessor, value |-> r.v])
         /\ _url' = r.ev._url
         /\ _pathname' = r.ev._pathname
         /\ _urlqindex' = r.ev._urlqindex
         /\ _query' = r.ev._query
         /\ _queryString' = r.ev._queryString
    /\ UNCHANGED requestUrl
    /\ UNCHANGED notUrl

ReadUrl == Read("url", url(Ev))

ReadPath == Read("path", path(Ev))

ReadPathname == Read("pathname", pathname(Ev))

ReadQuery == Read("query", query(Ev))

ReadQueryString == Read("queryString", queryString(Ev))

UrlNext ==
    \/ ReadUrl
    \/ ReadPath
    \/ ReadPathname
    \/ ReadQuery
    \/ ReadQueryString

(***************************************************************************)
(* Sessions of one event under one session name: getSession, useSession,   *)
(* updateSession and clearSession. A session object is known by its        *)
(* position in sessionObjects; its data is the set of its keys. Promise    *)
(* reactions run in the order they were queued (jobs); unsealing and       *)
(* sealing complete at any later time.                                     *)
(***************************************************************************)
\* The id and the data the request's sealed session holds.
UnsealedId == Str(<<99>>)
UnsealedData == {<<"sealed", 0>>}

\* The keys the c-th call, an updateSession, assigns: each update brings a
\* key of its own.
UpdateData(c) == {<<"update", c>>}

\* What `config.generateId?.() ?? crypto.randomUUID()` returns the k-th time.
generateId(k) == Str(<<48 + k>>)

\* `{ id: "", createdAt: 0, data: new EmptyObject() }`, with the kGetSession
\* property present or not.
NewSession(loading) == [id |-> Str(<<>>), data |-> {}, kGetSession |-> loading]

\* The calls registered on the kGetSession promise of session object o, in
\* the order they were made.
RECURSIVE Waiters(_, _)
Waiters(calls, o) ==
    IF calls = <<>> THEN <<>>
    ELSE Waiters(SubSeq(calls, 1, Len(calls) - 1), o)
           \o (IF calls[Len(calls)].pc = "waiting" /\ calls[Len(calls)].session = o
               THEN <<Len(calls)>> ELSE <<>>)

\* No call is in flight.
Quiescent ==
    /\ jobs = <<>>
    /\ \A c \in 1..Len(sessionCalls) : sessionCalls[c].pc \in {"resolved", "rejected"}

\* A call as it starts: found tells what it found in the context (no
\* session, one whose kGetSession promise is pending, or a ready one), epoch
\* how many clearSession calls came before it.
SessionCall(kind, pc, o) ==
    [kind |-> kind, pc |-> pc, session |-> o,
     found |-> IF sessions = 0 THEN "none"
               ELSE IF sessionObjects[sessions].kGetSession THEN "loading"
               ELSE "ready",
     epoch |-> Len(cleared), seen |-> Undefined]

SessionRest ==
    /\ sessions = 0
    /\ sessionObjects = <<>>
    /\ sessionCalls = <<>>
    /\ jobs = <<>>
    /\ generated = 0
    /\ cleared = <<>>

SessionAtRest == requestSession = "none" /\ SessionRest

\* The request carries no sealed session, one that unseals, or one that
\* fails to unseal (wrong seal or expired).
SessionInit == requestSession \in {"none", "valid", "invalid"} /\ SessionRest

\* Mutant of ExistingSession: `return existingSession`, the pending
\* kGetSession promise ignored.
ExistingSessionNow(kind) ==
    /\ sessionCalls' = Append(sessionCalls, SessionCall(kind, "returned", sessions))
    /\ jobs' = Append(jobs, Len(sessionCalls) + 1)
    /\ UNCHANGED <<sessions, sessionObjects, generated>>

\* getSession finds a session in the context:
\* `return existingSession[kGetSession] || existingSession;`
ExistingSession(kind) ==
    IF sessionObjects[sessions].kGetSession
    THEN /\ sessionCalls' = Append(sessionCalls, SessionCall(kind, "waiting", sessions))
         /\ UNCHANGED <<sessions, sessionObjects, jobs, generated>>
    ELSE /\ sessionCalls' = Append(sessionCalls, SessionCall(kind, "returned", sessions))
         /\ jobs' = Append(jobs, Len(sessionCalls) + 1)
         /\ UNCHANGED <<sessions, sessionObjects, generated>>

\* getSession finds none: it stores a new session object in the context,
\* then either starts unsealing the request's sealed session and awaits it,
\* or generates the id at once and awaits updateSession (sealing).
CreateSession(kind) ==
    /\ sessions' = Len(sessionObjects) + 1
    /\ IF requestSession # "none"
       THEN /\ sessionObjects' = Append(sessionObjects, NewSession(TRUE))
            /\ sessionCalls' = Append(sessionCalls,
                                 SessionCall(kind, "unsealing", sessions'))
            /\ UNCHANGED generated
       ELSE /\ sessionObjects' = Append(sessionObjects,
                                   [NewSession(FALSE) EXCEPT !.id = generateId(generated + 1)])
            /\ generated' = generated + 1
            /\ sessionCalls' = Append(sessionCalls,
                                 SessionCall(kind, "sealing", sessions'))
    /\ UNCHANGED jobs

\* getSession(event, config), or useSession(event, config) which awaits it:
\* the part that runs before the first await.
GetSession(kind) ==
    /\ kind \in {"getSession", "useSession"}
    /\ Len(sessionCalls) < MaxSessionCalls
    /\ IF sessions # 0 THEN ExistingSession(kind) ELSE CreateSession(kind)
    /\ UNCHANGED <<requestSession, cleared>>
    /\ UNCHANGED notSession

\* updateSession(event, config, update), the part that runs before the
\* first await: with a session in the context the update is assigned at
\* once and sealing starts, otherwise getSession is awaited first.
UpdateSession ==
    /\ Len(sessionCalls) < MaxSessionCalls
    /\ IF sessions # 0
       THEN /\ sessionObjects' =
                 [sessionObjects EXCEPT ![sessions].data =
                                            @ \cup UpdateData(Len(sessionCalls) + 1)]
            /\ sessionCalls' = Append(sessionCalls,
                                 SessionCall("updateSession", "sealingUpdate", sessions))
            /\ UNCHANGED <<sessions, jobs, generated>>
       ELSE CreateSession("updateSession")
    /\ UNCHANGED <<requestSession, cleared>>
    /\ UNCHANGED notSession

\* unsealSession settles for the call that created session object o; a
\* failure is swallowed (`.catch(() => {})`). The `.then` callback assigns
\* what was unsealed and deletes kGetSession from the session in the
\* context; the promise fulfils, and its reactions are queued in the order
\* they were registered: the creating call's `await promise` first, then
\* the calls that were handed the promise. (No session call is in flight
\* when clearSession runs, so the context still holds a session here.)
UnsealDone(c) ==
    /\ c \in 1..Len(sessionCalls)
    /\ sessionCalls[c].pc = "unsealing"
    /\ sessions # 0
    /\ \E o \in {sessionCalls[c].session} :
         /\ sessionObjects' =
              [i \in 1..Len(sessionObjects) |->
                 [id |-> IF i = o /\ requestSession = "valid"
                         THEN UnsealedId ELSE sessionObjects[i].id,
                  data |-> IF i = o /\ requestSession = "valid"
                           THEN UnsealedData ELSE sessionObjects[i].data,
                  kGetSession |-> IF i = sessions THEN FALSE
                                  ELSE sessionObjects[i].kGetSession]]
         /\ sessionCalls' =
              [i \in 1..Len(sessionCalls) |->
                 IF i = c THEN [sessionCalls[i] EXCEPT !.pc = "unsealed"]
                 ELSE IF sessionCalls[i].pc = "waiting" /\ sessionCalls[i].session = o
                 THEN [sessionCalls[i] EXCEPT !.pc = "returned"]
                 ELSE sessionCalls[i]]
         /\ jobs' = jobs \o <<c>> \o Waiters(sessionCalls, o)
    /\ UNCHANGED <<requestSession, sessions, generated, cleared>>
    /\ UNCHANGED notSession

\* What the caller of a settled call gets: getSession and updateSession
\* resolve with the session object itself, useSession with a manager whose
\* id and data getters read the session in the context.
Observed(call) ==
    IF call.kind = "useSession"
    THEN IF sessions = 0
         THEN [session |-> 0, id |-> Undefined, data |-> {}]
         ELSE [session |-> sessions, id |-> sessionObjects[sessions].id,
               data |-> sessionObjects[sessions].data]
    ELSE [session |-> call.session, id |-> sessionObjects[call.session].id,
          data |-> sessionObjects[call.session].data]

\* The oldest queued reaction runs.
\*  - after `await promise`: `if (!session.id)` generates the id, and
\*    updateSession (sealing) is awaited;
\*  - a returned getSession inside updateSession: the update is assigned and
\*    sealing starts;
\*  - otherwise the caller receives the result.
RunJob ==
    /\ jobs # <<>>
    /\ \E c \in {Head(jobs)} : \E call \in {sessionCalls[Head(jobs)]} :
         IF call.pc = "unsealed"
         THEN /\ sessions # 0
              /\ IF Truthy(sessionObjects[call.session].id)
                 THEN /\ sessionCalls' = [sessionCalls EXCEPT ![c].pc = "returned"]
                      /\ jobs' = Append(Tail(jobs), c)
                      /\ UNCHANGED <<sessionObjects, generated>>
                 ELSE /\ sessionObjects' =
                           [sessionObjects EXCEPT ![call.session].id =
                                                     generateId(generated + 1)]
                      /\ generated' = generated + 1
                      /\ sessionCalls' = [sessionCalls EXCEPT ![c].pc = "sealing"]
                      /\ jobs' = Tail(jobs)
         ELSE IF call.pc = "returned" /\ call.kind = "updateSession"
         THEN /\ sessionObjects' =
                   [sessionObjects EXCEPT ![call.session].data = @ \cup UpdateData(c)]
              /\ sessionCalls' = [sessionCalls EXCEPT ![c].pc = "sealingUpdate"]
              /\ jobs' = Tail(jobs)
              /\ UNCHANGED generated
         ELSE /\ sessionCalls' = [sessionCalls EXCEPT ![c].pc = "resolved",
                                                      ![c].seen = Observed(call)]
              /\ jobs' = Tail(jobs)
              /\ UNCHANGED <<sessionObjects, generated>>
    /\ UNCHANGED <<requestSession, sessions, cleared>>
    /\ UNCHANGED notSession

\* sealSession settles inside updateSession: the cookie is set, the call
\* returns its session.
SealDone(c) ==
    /\ c \in 1..Len(sessionCalls)
    /\ sessionCalls[c].pc \in {"sealing", "sealingUpdate"}
    /\ sessionCalls' = [sessionCalls EXCEPT ![c].pc =
                           IF @ = "sealing" THEN "returned" ELSE "updated"]
    /\ jobs' = Append(jobs, c)
    /\ UNCHANGED <<requestSession, sessions, sessionObjects, generated, cleared>>
    /\ UNCHANGED notSession

\* clearSession(event, config), called while no session call is in flight:
\* the session is deleted from the context. The cookie it sets goes to the
\* response; what the request carries stays.
ClearSession ==
    /\ Quiescent
    /\ Len(cleared) < MaxClears
    /\ cleared' = Append(cleared,
                    IF sessions = 0 THEN [id |-> Undefined, data |-> {}]
                    ELSE [id |-> sessionObjects[sessions].id,
                          data |-> sessionObjects[sessions].data])
    /\ sessions' = 0
    /\ UNCHANGED <<requestSession, sessionObjects, sessionCalls, jobs, generated>>
    /\ UNCHANGED notSession

SessionNext ==
    \/ \E kind \in {"getSession", "useSession"} : GetSession(kind)
    \/ UpdateSession
    \/ \E c \in 1..MaxSessionCalls : UnsealDone(c)
    \/ RunJob
    \/ \E c \in 1..MaxSessionCalls : SealDone(c)
    \/ ClearSession

(***************************************************************************)
(* withBase(base, h): handlers that strip a base from the event's pathname *)
(* while the wrapped handler runs. Texts are sequences of character codes  *)
(* ("/" 47, "a" 97, "b" 98). Once event.url has been read, event.pathname  *)
(* is the pathname of that URL object (src/unnamed/part_008, 202-229).     *)
(***************************************************************************)
\* withoutTrailingSlash(path) of utils/internal/path.
withoutTrailingSlash(p) ==
    IF p = <<>> \/ p = <<47>> THEN <<47>>
    ELSE IF p[Len(p)] = 47 THEN SubSeq(p, 1, Len(p) - 1)
    ELSE p

\* withoutBase(input, base) of utils/internal/path.
withoutBase(input, base) ==
    IF base = <<>> \/ base = <<47>> THEN input
    ELSE IF Len(input) < Len(base) \/ SubSeq(input, 1, Len(base)) # base THEN input
    ELSE LET trimmed == SubSeq(input, Len(base) + 1, Len(input))
         IN IF trimmed # <<>> /\ trimmed[1] = 47 THEN trimmed ELSE <<47>> \o trimmed

\* `url.pathname = p` on an http URL, for a path without dot segments and
\* without characters that are percent-encoded: the path starts with "/".
SetPathname(p) == Str(IF p = <<>> \/ p[1] # 47 THEN <<47>> \o p ELSE p)

\* The pathnames of the request: "/", "/a", "/a/b", "/ab", "/b/a".
RequestPathnames ==
    { <<47>>, <<47, 97>>, <<47, 97, 47, 98>>, <<47, 97, 98>>, <<47, 98, 47, 97>> }

\* The bases handed to withBase: "/", "/a", "/a/", "/b".
Bases == { <<47>>, <<47, 97>>, <<47, 97, 47>>, <<47, 98>> }

\* withBase(base, input): `base = withoutTrailingSlash(base)`. A chain is
\* withBase(b1, withBase(b2, ... h)), outermost first.
BaseChains ==
    { [i \in 1..Len(c) |-> withoutTrailingSlash(c[i])] :
        c \in UNION { [1..n -> Bases] : n \in 1..MaxNesting } }

BaseRest ==
    /\ baseFrames = <<>>
    /\ baseH = [state |-> "idle", saw |-> Undefined]
    /\ baseLog = <<>>
    /\ baseResult = [kind |-> "pending"]

BaseAtRest ==
    /\ evPathname = Str(<<47>>)
    /\ originalPathname = evPathname
    /\ baseChain = <<<<47>>>>
    /\ BaseRest

BaseInit ==
    /\ evPathname \in {Str(p) : p \in RequestPathnames}
    /\ originalPathname = evPathname
    /\ baseChain \in BaseChains
    /\ BaseRest

\* The next withBase handler of the chain is called with the event:
\*   const _pathBefore = event.url.pathname || "/";
\*   event.url.pathname = withoutBase(event.pathname || "/", base);
EnterBase ==
    /\ baseH.state = "idle"
    /\ Len(baseFrames) < Len(baseChain)
    /\ \E base \in {baseChain[Len(baseFrames) + 1]} :
         /\ baseFrames' = Append(baseFrames,
                [base |-> base, _pathBefore |-> Or(evPathname, Str(<<47>>))])
         /\ evPathname' = SetPathname(withoutBase(Or(evPathname, Str(<<47>>)).s, base))
    /\ UNCHANGED <<originalPathname, baseChain, baseH, baseLog, baseResult>>
    /\ UNCHANGED notBase

\* A withBase handler settles: it leaves baseFrames, the pathname it leaves
\* behind goes to baseLog, and the promise of the outermost one settles as
\* the wrapped handler did.
LeaveBase(pathnameNow, frames, outcome) ==
    /\ baseLog' = Append(baseLog, [depth |-> Len(frames),
                                   before |-> frames[Len(frames)]._pathBefore,
                                   after |-> pathnameNow])
    /\ baseFrames' = SubSeq(frames, 1, Len(frames) - 1)
    /\ baseResult' = IF Len(frames) = 1 THEN outcome ELSE baseResult

\* `_originalHandler(event)` throws: the innermost withBase handler, an
\* async function, rejects before `.finally` is reached.
HandlerThrows ==
    /\ baseH' = [state |-> "threw", saw |-> evPathname]
    /\ UNCHANGED evPathname
    /\ LeaveBase(evPathname, baseFrames, [kind |-> "rejected", with |-> "thrown"])

\* The innermost withBase handler calls the wrapped handler h, which
\* throws, or returns a value or a promise.
CallH(how) ==
    /\ baseH.state = "idle"
    /\ Len(baseFrames) = Len(baseChain)
    /\ IF how = "throws" THEN HandlerThrows
       ELSE /\ baseH' = [state |-> how, saw |-> evPathname]
            /\ UNCHANGED <<evPathname, baseFrames, baseLog, baseResult>>
    /\ UNCHANGED <<originalPathname, baseChain>>
    /\ UNCHANGED notBase

\* The promise h returned settles.
SettleH(how) ==
    /\ baseH.state = "pending"
    /\ how \in {"fulfilled", "rejected"}
    /\ baseH' = [baseH EXCEPT !.state = how]
    /\ UNCHANGED <<evPathname, originalPathname, baseChain, baseFrames, baseLog, baseResult>>
    /\ UNCHANGED notBase

\* What the settled h gives to the handler that called it.
OutcomeOfH ==
    IF baseH.state = "threw" THEN [kind |-> "rejected", with |-> "thrown"]
    ELSE IF baseH.state = "rejected" THEN [kind |-> "rejected", with |-> "rejection"]
    ELSE [kind |-> "fulfilled", with |-> "value"]

\* The promise the innermost entered withBase handler waits on has settled:
\* `.finally(() => { event.url.pathname = _pathBefore; })` runs and the
\* handler settles the same way.
Finally ==
    /\ baseFrames # <<>>
    /\ baseH.state \in {"fulfilled", "rejected", "threw"}
    /\ evPathname' = SetPathname(baseFrames[Len(baseFrames)]._pathBefore.s)
    /\ LeaveBase(evPathname', baseFrames, OutcomeOfH)
    /\ UNCHANGED <<originalPathname, baseChain, baseH>>
    /\ UNCHANGED notBase

BaseNext ==
    \/ EnterBase
    \/ \E how \in {"throws", "fulfilled", "pending"} : CallH(how)
    \/ \E how \in {"fulfilled", "rejected"} : SettleH(how)
    \/ Finally

(***************************************************************************)
(* Response cookies: setCookie and deleteCookie. A set-cookie entry is the *)
(* text of the header value as the sequence of its words and separators,   *)
(* "a=1; Path=/" being <<"a", "=", "1", ";", " ", "Path", "=", "/">>;      *)
(* options hold "" or FALSE for what is absent.                            *)
(***************************************************************************)
\* The text of a word: nothing for the empty word.
Word(w) == IF w = "" THEN <<>> ELSE <<w>>

\* `pieces.join("")`
RECURSIVE Join(_)
Join(text) == IF text = <<>> THEN "" ELSE Head(text) \o Join(Tail(text))

\* `s.toLowerCase()` for the words of the model.
ToLowerCase(w) ==
    CASE w = "Max-Age" -> "max-age"
      [] w = "Domain" -> "domain"
      [] w = "Path" -> "path"
      [] w = "HttpOnly" -> "httponly"
      [] w = "Secure" -> "secure"
      [] w = "SameSite" -> "samesite"
      [] w = "Lax" -> "lax"
      [] w = "Strict" -> "strict"
      [] OTHER -> w

\* `s.trimStart()`
RECURSIVE trimStart(_)
trimStart(text) ==
    IF text # <<>> /\ Head(text) = " " THEN trimStart(Tail(text)) ELSE text

\* "; name=value" and "; name"
Attribute(name, value) == <<";", " ", name, "=">> \o Word(value)

Flag(name) == <<";", " ", name>>

\* serializeCookie(name, value, options) of cookie-es, for a name and a value
\* that need no encoding: "name=value", then Max-Age, Domain, Path,
\* HttpOnly, Secure and SameSite for the options that are given; sameSite
\* "lax" is written "Lax", "strict" is written "Strict".
serializeCookie(name, value, options) ==
    <<name, "=">> \o Word(value)
      \o (IF options.maxAge # "" THEN Attribute("Max-Age", options.maxAge) ELSE <<>>)
      \o (IF options.domain # "" THEN Attribute("Domain", options.domain) ELSE <<>>)
      \o (IF options.path # "" THEN Attribute("Path", options.path) ELSE <<>>)
      \o (IF options.httpOnly THEN Flag("HttpOnly") ELSE <<>>)
      \o (IF options.secure THEN Flag("Secure") ELSE <<>>)
      \o (IF options.sameSite = "lax" THEN Attribute("SameSite", "Lax")
          ELSE IF options.sameSite = "strict" THEN Attribute("SameSite", "Strict")
          ELSE <<>>)

\* parseSetCookie(cookie) of cookie-es, as far as the key of a cookie goes:
\* the text is split at ";", each part after the first at "=", the
\* attribute names are lower-cased, a later attribute overrides an earlier
\* one of the same name.
parseSetCookie(cookie) ==
    LET parts == Tail(Split(cookie, ";", <<>>))
    IN LET attributes ==
               { LET sides == Split(trimStart(parts[i]), "=", <<>>)
                 IN [at |-> i,
                     name |-> ToLowerCase(Join(sides[1])),
                     value |-> IF Len(sides) > 1 THEN Join(sides[2]) ELSE ""] :
                 i \in 1..Len(parts) }
       IN LET Has(name) == \E a \in attributes : a.name = name
              Value(name) ==
                  IF Has(name)
                  THEN (CHOOSE a \in attributes :
                          /\ a.name = name
                          /\ \A b \in attributes : b.name = name => b.at <= a.at).value
                  ELSE ""
          IN [domain |-> Value("domain"),
              path |-> Value("path"),
              secure |-> Has("secure"),
              httpOnly |-> Has("httponly"),
              sameSite |-> Value("samesite")]

\* _getDistinctCookieKey(name, options): the fields that are joined.
_getDistinctCookieKey(name, options) ==
    <<name,
      options.domain,
      IF options.path = "" THEN "/" ELSE options.path,
      options.secure,
      options.httpOnly,
      options.sameSite # "">>

\* `{ path: "/", ...options }`
WithDefaultPath(options) ==
    IF options.path = "" THEN [options EXCEPT !.path = "/"] ELSE options

\* Mutant of setCookie: the new cookie is appended, nothing is removed.
setCookieAppended(current, name, value, options) ==
    Append(current, serializeCookie(name, value, WithDefaultPath(options)))

\* setCookie(event, name, value, options) on the set-cookie entries the
\* response holds: the entries it holds afterwards.
setCookie(current, name, value, options) ==
    LET newCookie == serializeCookie(name, value, WithDefaultPath(options))
        newCookieKey == _getDistinctCookieKey(name, options)
        Other(cookie) ==
            LET parsed == parseSetCookie(cookie)
            IN _getDistinctCookieKey(Join(Split(cookie, "=", <<>>)[1]), parsed) # newCookieKey
    IN IF Len(current) = 0 THEN <<newCookie>>
       ELSE Append(SelectSeq(current, Other), newCookie)

\* deleteCookie(event, name, serializeOptions): setCookie with an empty
\* value and `maxAge: 0`.
deleteCookie(current, name, serializeOptions) ==
    setCookie(current, name, "", [serializeOptions EXCEPT !.maxAge = "0"])

\* The cookie names "a" and "b".
CookieNames == {"a", "b"}

NoOptions ==
    [maxAge |-> "", domain |-> "", path |-> "", secure |-> FALSE,
     httpOnly |-> FALSE, sameSite |-> ""]

\* The options of the calls: none, path "/", sameSite "lax", sameSite
\* "strict", and path "/p" with domain "h", secure and httpOnly.
CookieOptions ==
    { NoOptions,
      [NoOptions EXCEPT !.path = "/"],
      [NoOptions EXCEPT !.sameSite = "lax"],
      [NoOptions EXCEPT !.sameSite = "strict"],
      [NoOptions EXCEPT !.path = "/p", !.domain = "h", !.secure = TRUE,
                        !.httpOnly = TRUE] }

\* The calls of the model: cookie "a" with every option, cookie "b" without
\* options.
CookieCalls ==
    { c \in [name : CookieNames, options : CookieOptions] :
        c.name = "a" \/ c.options = NoOptions }

CookieInit ==
    /\ setCookieHeader = <<>>
    /\ cookieJar = <<>>

\* The jar after a call for the given key: the entry of the key is taken
\* out, the new cookie is put last.
Put(jar, key, cookie) ==
    Append(SelectSeq(jar, LAMBDA e : e.key # key), [key |-> key, cookie |-> cookie])

SetCookie(name, value, options) ==
    /\ setCookieHeader' = setCookie(setCookieHeader, name, value, options)
    /\ Len(setCookieHeader') <= MaxCookies
    /\ cookieJar' = Put(cookieJar, _getDistinctCookieKey(name, options),
                        serializeCookie(name, value, WithDefaultPath(options)))
    /\ UNCHANGED notCookie

DeleteCookie(name, options) ==
    /\ setCookieHeader' = deleteCookie(setCookieHeader, name, options)
    /\ Len(setCookieHeader') <= MaxCookies
    /\ cookieJar' = Put(cookieJar, _getDistinctCookieKey(name, options),
                        serializeCookie(name, "",
                            WithDefaultPath([options EXCEPT !.maxAge = "0"])))
    /\ UNCHANGED notCookie

CookieNext ==
    \/ \E c \in CookieCalls : SetCookie(c.name, "1", c.options)
    \/ \E c \in CookieCalls : DeleteCookie(c.name, c.options)

(***************************************************************************)
(* Specifications: one component runs, the others stay at rest.            *)
(***************************************************************************)
HandlerRest ==
    /\ handlerObject = [handler |-> [t |-> "function", resolve |-> Undefined,
                                     websocket |-> Undefined],
                        websocket |-> Undefined]
    /\ _handler = defineEventHandler(handlerObject)
    /\ _hooks = [onRequest |-> Undefined, onBeforeResponse |-> Undefined]
    /\ HandlerIdle

ResponseAtRest ==
    method = "GET" /\ debug = FALSE /\ requestHeaders = {} /\ ResponseRest

InitSSE == EventStreamNew /\ HandlerRest /\ LazyInit /\ ErrorRest /\ ResponseAtRest /\ UrlAtRest /\ SessionAtRest /\ BaseAtRest /\ CookieInit

SpecSSE == InitSSE /\ [][EventStreamNext]_vars

InitHandler == HandlerInit /\ EventStreamInit /\ LazyInit /\ ErrorRest /\ ResponseAtRest /\ UrlAtRest /\ SessionAtRest /\ BaseAtRest /\ CookieInit

SpecHandler == InitHandler /\ [][HandlerNext]_vars

InitLazy == LazyInit /\ EventStreamInit /\ HandlerRest /\ ErrorRest /\ ResponseAtRest /\ UrlAtRest /\ SessionAtRest /\ BaseAtRest /\ CookieInit

SpecLazy == InitLazy /\ [][LazyNext]_vars

InitError == ErrorInit /\ EventStreamInit /\ HandlerRest /\ LazyInit /\ ResponseAtRest /\ UrlAtRest /\ SessionAtRest /\ BaseAtRest /\ CookieInit

SpecError == InitError /\ [][ErrorNext]_vars

InitResponse == ResponseInit /\ EventStreamInit /\ HandlerRest /\ LazyInit /\ ErrorRest /\ UrlAtRest /\ SessionAtRest /\ BaseAtRest /\ CookieInit

SpecResponse == InitResponse /\ [][ResponseNext]_vars


InitUrl == UrlInit /\ EventStreamInit /\ HandlerRest /\ LazyInit /\ ErrorRest /\ ResponseAtRest /\ SessionAtRest /\ BaseAtRest /\ CookieInit

SpecUrl == InitUrl /\ [][UrlNext]_vars

InitSession ==
    /\ SessionInit /\ EventStreamInit /\ HandlerRest /\ LazyInit /\ ErrorRest
    /\ ResponseAtRest /\ UrlAtRest /\ BaseAtRest /\ CookieInit

InitCookie ==
    /\ CookieInit /\ EventStreamInit /\ HandlerRest /\ LazyInit /\ ErrorRest
    /\ ResponseAtRest /\ UrlAtRest /\ SessionAtRest /\ BaseAtRest

SpecCookie == InitCookie /\ [][CookieNext]_vars

InitBase ==
    /\ BaseInit /\ EventStreamInit /\ HandlerRest /\ LazyInit /\ ErrorRest
    /\ ResponseAtRest /\ UrlAtRest /\ SessionAtRest /\ CookieInit

SpecBase == InitBase /\ [][BaseNext]_vars

SpecSession == InitSession /\ [][SessionNext]_vars

\* The EventStream with what the runtime guarantees to happen: the
\* continuation of a close() whose _writer.close() rejected runs, and a
\* close the writer accepted completes once no write is queued before it.
\* Nothing guarantees that the readable side is ever read: a queued write
\* may stay queued.
SpecSSEFair ==
    /\ InitSSE
    /\ [][EventStreamNext]_vars
    /\ WF_vars(CloseRejected)
    /\ WF_vars(WriterClosed)
(***************************************************************************)
(* Claims about EventStream, checked under SpecSSE.                        *)
(***************************************************************************)
\* The step is a call of push() / resume().
PushStep == sseOp' = "push" /\ sseCalls' = sseCalls + 1
ResumeStep == sseOp' = "resume" /\ sseCalls' = sseCalls + 1

\* The messages handed to push() in this step.
NewlyPushed == SubSeq(pushed', Len(pushed) + 1, Len(pushed'))

\* The write calls made in this step.
NewWriteCalls == SubSeq(writeCalls', Len(writeCalls) + 1, Len(writeCalls'))

\* The data fields carried by a payload, in wire order.
RECURSIVE DataOf(_)
DataOf(payload) ==
    IF payload = <<>> THEN <<>>
    ELSE (IF Head(payload)[1] = "data" THEN <<Head(payload)[2]>> ELSE <<>>)
         \o DataOf(Tail(payload))

\* payload is the messages msgs serialized one after the other: their data
\* lines in order, each data line followed at once by the blank line that
\* ends its message, and no other blank line.
IsConcatOf(payload, msgs) ==
    /\ DataOf(payload) = [i \in 1..Len(msgs) |-> msgs[i].data]
    /\ \A i \in 1..Len(payload) :
         (payload[i][1] = "data") <=> (i < Len(payload) /\ payload[i + 1] = BlankLine)
    /\ Cardinality({i \in 1..Len(payload) : payload[i] = BlankLine}) = Len(msgs)

\* C6 (as stated): once close() has settled (_disposed), a push() attempts no
\* write on the underlying writer and lets no error escape.
C6_NoWriteAttemptAfterClose ==
    [][(_disposed /\ PushStep) => (writeCalls' = writeCalls /\ ~escaped')]_vars

\* C6 (amended): after close() has been called, no payload of a later push()
\* is accepted by the writer and no error escapes from push(); once the
\* writer's closed promise has fulfilled (_writerIsClosed) push() makes no
\* call on the writer at all.
C6_NothingWrittenAfterClose ==
    [][(closeCalled /\ PushStep) =>
          /\ ~escaped'
          /\ _writer'.queue = _writer.queue
          /\ \A i \in 1..Len(NewWriteCalls) : ~NewWriteCalls[i].accepted
          /\ (_writerIsClosed => writeCalls' = writeCalls /\ _unsentData' = _unsentData)
      ]_vars

\* Witness of C6: a message was pushed after close() and the writer turned
\* the write down.
C6_Witness ==
    /\ closeCalled
    /\ sseOp = "push"
    /\ writeCalls # <<>>
    /\ Last(writeCalls).by = "push"
    /\ ~Last(writeCalls).accepted
    /\ ~escaped

\* The data of the messages the writer accepted, in the order of the writes.
AcceptedData ==
    DataOf(Flatten([i \in 1..Len(writeCalls) |->
        IF writeCalls[i].accepted THEN writeCalls[i].payload ELSE <<>>]))

\* C7: messages reach the underlying writer in the order they were pushed
\* (the k-th pushed message carries data k), across any sequence of pause(),
\* push() and resume().
C7_WriterSeesPushOrder ==
    \A i, j \in 1..Len(AcceptedData) : i < j => AcceptedData[i] <= AcceptedData[j]

\* C8: while the stream is paused (and its writer not known closed) push()
\* performs no write and appends the serialized messages to the pending
\* buffer; resume() hands a non-empty buffer to the writer in exactly one
\* write of the whole buffer; and as long as nothing has been written the
\* buffer is the serialization of every pushed message in push order, each
\* terminated by a blank line - so three messages pushed while paused
\* followed by resume() give exactly one write of the three.
C8_PausedPushBuffersResumeWritesOnce ==
    [][/\ (PushStep /\ _paused /\ ~_writerIsClosed) =>
            /\ writeCalls' = writeCalls
            /\ \E tail \in {SubSeq(_unsentData', Len(_unsentData) + 1, Len(_unsentData'))} :
                 /\ _unsentData' = _unsentData \o tail
                 /\ IsConcatOf(tail, NewlyPushed)
       /\ (ResumeStep /\ ~_writerIsClosed /\ _unsentData # <<>>) =>
            /\ Len(writeCalls') = Len(writeCalls) + 1
            /\ Last(writeCalls').payload = _unsentData
       /\ (ResumeStep /\ (_writerIsClosed \/ _unsentData = <<>>)) =>
            writeCalls' = writeCalls
       /\ (writeCalls' = <<>> /\ ~_writerIsClosed') => IsConcatOf(_unsentData', pushed')
      ]_vars

\* Witness of C8: three messages were pushed while paused, resume() was
\* called, and the writer got one write carrying the three.
C8_Witness ==
    /\ sseOp = "resume"
    /\ Len(pushed) = 3
    /\ Len(writeCalls) = 1
    /\ writeCalls[1].by = "flush"
    /\ writeCalls[1].accepted
    /\ IsConcatOf(writeCalls[1].payload, pushed)


\* The step is a call of close() / flush().
CloseStep == sseOp' = "close" /\ sseCalls' = sseCalls + 1
FlushStep == sseOp' = "flush" /\ sseCalls' = sseCalls + 1

\* No close() is suspended at its await.
NoCloseInFlight == closeCalls = [awaiting |-> 0, rejected |-> 0]

\* The parts of C15 that no schedule can break: _disposed, once set, stays
\* set; a close() call on a disposed stream changes nothing; no error
\* escapes.
C15_CloseIdempotent ==
    /\ [][_disposed => _disposed']_vars
    /\ [][(_disposed /\ CloseStep) =>
             UNCHANGED <<_writerIsClosed, _paused, _unsentData, _disposed, _writer,
                         closeCalls, writeCalls, pushed, escaped>>]_vars
    /\ [](~escaped)

\* C15: close() is idempotent and, in whatever state the stream is, every
\* call of it eventually returns with _disposed set and no error escaped;
\* _disposed then stays set and later close() calls do nothing.
C15_CloseAlwaysSettlesDisposed ==
    /\ C15_CloseIdempotent
    /\ closeCalled ~> (_disposed /\ NoCloseInFlight)

\* The step is node.res emitting "close".
ResCloseStep == ~resClosed /\ resClosed'

\* The parts of C17 that no schedule can break: the writer accepts at most
\* one close and never becomes writable again, whatever close() calls the
\* signal interleaves with; without the listener the signal changes nothing
\* of the stream.
C17_SignalClosesWriterAtMostOnce ==
    /\ [](closeCalls.awaiting <= 1)
    /\ [][_writer.state # "writable" => _writer'.state # "writable"]_vars
    /\ [][(ResCloseStep /\ ~autoclose) =>
             UNCHANGED <<_writerIsClosed, _paused, _unsentData, _disposed, _writer,
                         closeCalls, writeCalls, pushed, closeCalled, escaped>>]_vars

\* C17: with auto-close enabled the stream closes itself when node.res
\* signals that the connection closed: after the signal the stream ends
\* disposed, the writer is closed at most once however the signal interleaves
\* with close() calls, and with autoclose: false the signal closes nothing.
C17_AutoCloseOnTransportSignal ==
    /\ C17_SignalClosesWriterAtMostOnce
    /\ (resClosed /\ autoclose) ~> _disposed

\* flush() runs: called by application code or by resume().
FlushRuns == FlushStep \/ ResumeStep

\* The write a flush() awaits completes and the flush() returns.
FlushReturns ==
    /\ _writer.queue # <<>>
    /\ Head(_writer.queue).byFlush
    /\ _writer' = [_writer EXCEPT !.queue = Tail(@)]

\* C18 as stated, the stream being closed once close() has settled or the
\* writer has closed: a flush() of a non-empty buffer on a stream that is not
\* closed hands the whole buffer to the writer, which takes it; a flush() on
\* a closed stream or of an empty buffer makes no write call and leaves the
\* buffer as it is; a flush() that returns leaves the buffer empty.
C18_FlushWritesUnlessClosed ==
    /\ [][FlushRuns =>
            IF _unsentData # <<>> /\ ~(_disposed \/ _writerIsClosed)
            THEN NewWriteCalls = <<[payload |-> _unsentData, by |-> "flush",
                                    accepted |-> TRUE]>>
            ELSE writeCalls' = writeCalls /\ _unsentData' = _unsentData
         ]_vars
    /\ [][FlushReturns => _unsentData' = <<>>]_vars

\* C18 (amended): a flush() makes no write call and leaves the buffer as it
\* is when _writerIsClosed is set or the buffer is empty; otherwise it makes
\* one write call with the whole buffer. When the writer takes that write the
\* buffer is emptied at the time the write completes; when the writer turns
\* it down (a close is pending or the stream is errored) the buffer is left
\* as it is. Nothing else empties the buffer.
C18_FlushWritesUnlessWriterKnownClosed ==
    /\ [][FlushRuns =>
            /\ _unsentData' = _unsentData
            /\ IF _unsentData # <<>> /\ ~_writerIsClosed
               THEN /\ NewWriteCalls = <<[payload |-> _unsentData, by |-> "flush",
                                          accepted |-> WriterAccepts(_writer)]>>
                    /\ ~WriterAccepts(_writer) => _writer' = _writer
               ELSE writeCalls' = writeCalls /\ _writer' = _writer
         ]_vars
    /\ [][FlushReturns => _unsentData' = <<>>]_vars
    /\ [][(_unsentData # <<>> /\ _unsentData' = <<>>) => FlushReturns]_vars
    /\ [](~escaped)

\* A flush() was the last call made, the writer took its write, the write
\* has completed and the buffer is empty.
C18_Witness ==
    /\ sseOp = "flush"
    /\ writeCalls # <<>>
    /\ Last(writeCalls).by = "flush"
    /\ Last(writeCalls).accepted
    /\ _writer.queue = <<>>
    /\ _unsentData = <<>>

\* The data of the messages the pending buffer holds.
BufferedData == DataOf(_unsentData)

\* The writer of the stream has stayed open: nothing closed or cancelled it.
WriterOpen == _writer.state = "writable" /\ ~closeCalled /\ ~_writerIsClosed

\* C23: on a stream whose writer stays open no message is lost: every
\* message handed to push() has been handed to the writer or is still in the
\* pending buffer, also when it was appended to the buffer while a flush()
\* was awaiting its write and that flush() has completed since.
C23_NoMessageLost ==
    WriterOpen =>
        \A k \in 1..Len(pushed) :
            \/ \E i \in 1..Len(AcceptedData) : AcceptedData[i] = pushed[k].data
            \/ \E i \in 1..Len(BufferedData) : BufferedData[i] = pushed[k].data

\* C24: no message is handed to the writer twice, however flush() and
\* resume() calls interleave with a flush() that is still awaiting its write.
C24_EachMessageWrittenAtMostOnce ==
    \A i, j \in 1..Len(AcceptedData) : AcceptedData[i] = AcceptedData[j] => i = j

(***************************************************************************)
(* Claims about handler composition (SpecHandler).                         *)
(***************************************************************************)
\* The functions one invocation calls, in the order of the hook lists.
ExpectedCalls ==
    HookList(_hooks.onRequest) \o <<"H">> \o HookList(_hooks.onBeforeResponse)

\* The body of the response container after the first k entries of callLog:
\* the value last assigned by the handler or by an onBeforeResponse hook.
BodyAfter(k) ==
    LET at == {i \in 1..k : callLog[i].kind = "settled" /\ callLog[i].set # Kept}
    IN IF at = {} THEN NoBody
       ELSE callLog[CHOOSE i \in at : \A j \in at : j <= i].set

\* C1: every invocation calls the onRequest hooks, the handler and the
\* onBeforeResponse hooks strictly in list order (A, B, H, X, Y), each call
\* made only after the previous one has settled; every onBeforeResponse hook
\* observes the body as last reassigned, and the invocation fulfils with the
\* body as last reassigned.
C1_HooksRunInOrderAndSeeBody ==
    /\ Len(callLog) <= 2 * Len(ExpectedCalls)
    /\ \A i \in 1..Len(callLog) :
         /\ callLog[i].fn = ExpectedCalls[(i + 1) \div 2]
         /\ (i % 2 = 1) = (callLog[i].kind = "call")
         /\ callLog[i].kind = "threw" => i = Len(callLog)
         /\ (callLog[i].kind = "call" /\ callLog[i].fn \in ResponseHooks)
               => callLog[i].saw = BodyAfter(i - 1)
    /\ (callResult.kind = "fulfilled") = (callPc.phase = "returned")
    /\ callPc.phase = "returned" =>
         /\ Len(callLog) = 2 * Len(ExpectedCalls)
         /\ callResult.value = BodyAfter(Len(callLog))

C1_Witness ==
    /\ ExpectedCalls = <<"A", "B", "H", "X", "Y">>
    /\ callPc.phase = "returned"
    /\ [i \in 1..Len(callLog) |-> callLog[i].fn]
         = <<"A", "A", "B", "B", "H", "H", "X", "X", "Y", "Y">>
    /\ callLog[6].set = "h1"
    /\ callLog[8].set = "X"
    /\ callLog[9].saw = "X"
    /\ callLog[10].set = Kept
    /\ callResult.value = "X"


\* The entries of callLog that record a failure.
Failures == {i \in 1..Len(callLog) : callLog[i].kind = "threw"}

\* C21: when an onRequest hook, the handler or an onBeforeResponse hook
\* fails, the invocation rejects with the failure of that very function,
\* nothing of the sequence is called after it, and no body is returned; an
\* invocation rejects only because one of them failed.
C21_FailurePropagatesUncaught ==
    /\ \A i \in Failures :
          /\ i = Len(callLog)
          /\ callResult = [kind |-> "rejected", by |-> callLog[i].fn]
          /\ callPc.phase = "thrown"
    /\ (callResult.kind = "rejected") = (Failures # {})
    /\ (callResult.kind = "fulfilled") => (Failures = {})

\* An onBeforeResponse hook failed after the handler had returned a body
\* and an earlier hook had run.
C21_Witness ==
    /\ callLog # <<>>
    /\ Last(callLog).kind = "threw"
    /\ Last(callLog).fn = "Y"
    /\ Last(callLog).saw = "h1"
    /\ Len(callLog) = 10
    /\ callResult = [kind |-> "rejected", by |-> "Y"]

\* The hook bundle a websocket property exposes: none when the property is
\* undefined or holds no hooks.
HookBundle(websocket) ==
    IF websocket.t = "undefined" THEN Undefined ELSE websocket.hooks

\* C22: the handler defineEventHandler returns for a handler object carries
\* the resolve and the websocket of the wrapped terminal handler: the same
\* values when the terminal handler has them, none when it has none.
C22_ForwardsResolveAndWebsocket ==
    /\ _handler.resolve = handlerObject.handler.resolve
    /\ HookBundle(_handler.websocket) = HookBundle(handlerObject.handler.websocket)

C22_ForwardsResolve == _handler.resolve = handlerObject.handler.resolve

C22_WebsocketWrapsHooksOfObject ==
    _handler.websocket = [t |-> "object", hooks |-> handlerObject.websocket]
(***************************************************************************)
(* Claims about lazy handlers (SpecLazy).                                  *)
(***************************************************************************)
\* C9: load is not invoked before the first invocation, it is invoked at most
\* once over any interleaving of invocations and resolve() calls, and every
\* call that is served is served by the handler the one load produced.
C9_LoadInvokedAtMostOnce ==
    /\ lazyCalls = <<>> => loadCalls = <<>>
    /\ Len(loadCalls) <= 1
    /\ \A c \in 1..Len(lazyCalls) :
         lazyCalls[c].state = "served" => lazyCalls[c].by = 1


\* load call i failed: it threw, its promise rejected, or what it yielded
\* is not a handler function.
LoadFailed(i) == loadCalls[i].state \in {"threw", "rejected"}

\* Load call i is the only one, and every invocation and resolve() call so
\* far has failed with its failure.
FailureIsFinal(i) ==
    /\ Len(loadCalls) = i
    /\ \A c \in 1..Len(lazyCalls) :
          /\ lazyCalls[c].state \in {"threw", "failed"}
          /\ lazyCalls[c].on = i

\* C28: once load has failed or yielded something that is not a function,
\* load is never invoked again and every invocation and every resolve()
\* call on the lazy handler fails with that same failure.
C28_LoadFailureIsFinal ==
    \A i \in 1..Len(loadCalls) : LoadFailed(i) => FailureIsFinal(i)

\* The same, for the failures of the value or promise load returned.
C28_SettledFailureIsFinal ==
    \A i \in 1..Len(loadCalls) :
        loadCalls[i].state = "rejected" /\ (\A j \in 1..i : loadCalls[j].state # "threw")
            => FailureIsFinal(i)
(***************************************************************************)
(* Claims about error normalisation (SpecError).                           *)
(***************************************************************************)
\* C10: createError never throws, whatever it is called with; it always
\* returns an H3Error.
C10_CreateErrorNeverThrows ==
    errOutput.called => (~errOutput.threw /\ errOutput.value.t = "H3Error")


\* The first present of input.statusCode, input.status, cause.statusCode and
\* cause.status.
FirstStatusCode(input) ==
    Coalesce(Get(input, "statusCode"),
     Coalesce(Get(input, "status"),
      Coalesce(Get(Get(input, "cause"), "statusCode"),
               Get(Get(input, "cause"), "status"))))

\* That value when, as a number or as a numeric string, it lies in
\* [100,999]; 500 otherwise.
StatusCodeInRangeOr500(v) ==
    LET n == IF v.t = "string" THEN ParseInt(v.s) ELSE v
    IN IF n.t = "number" /\ n.n >= 100 /\ n.n <= 999 THEN n ELSE Num(500)

\* C11: for an object input that is not an H3Error, createError(input)
\* has as statusCode the first present of input.statusCode, input.status,
\* cause.statusCode, cause.status when that value (a number or a numeric
\* string) lies in [100,999], and 500 when it is absent, invalid or out of
\* range.
C11_StatusCodeFirstPresentOr500 ==
    (errOutput.called /\ errInput.t \in {"object", "Error"})
        => /\ ~errOutput.threw
           /\ errOutput.value.statusCode = StatusCodeInRangeOr500(FirstStatusCode(errInput))

HeadersBefore == HeaderMap(Or(before._headers, before._headersInit))

\* C2: whatever the handler returned, the prepared response has no body when
\* the request method is HEAD or the final status is a null-body status.
C2_NullBodyForHeadAndNullStatus ==
    prepared.t = "Response" =>
        ((method = "HEAD" \/ prepared.status.n \in NullStatuses)
            => prepared.body = Null)

\* C3: a prepared response with status 204 carries no content-length header.
C3_NoContentLengthOn204 ==
    (prepared.t = "Response" /\ prepared.status = Num(204))
        => prepared.headers["content-length"] = Absent

\* C4: for a returned Response, each of status, statusText and headers of the
\* prepared response is the event's when the event has it set and the
\* returned Response's own when not; when the event has none of them set the
\* returned Response itself is the result.
C4_ResponseMergedWithEvent ==
    (prepared.t = "Response" /\ val.t = "Response") =>
        LET statusSet == before.status.t # "undefined"
            textSet == before.statusText.t # "undefined"
            headersSet == HeadersBefore # NoHeaders
        IN IF ~statusSet /\ ~textSet /\ ~headersSet
           THEN prepared = val
           ELSE /\ prepared.status = IF statusSet THEN before.status ELSE val.status
                /\ prepared.statusText =
                     IF textSet THEN before.statusText ELSE val.statusText
                /\ prepared.headers = IF headersSet THEN HeadersBefore ELSE val.headers

\* C5: every header the event carried when the handler returned is in the
\* prepared response with the value the event gave it, whatever headers the
\* type of the returned value implies.
C5_EventHeadersNotOverwritten ==
    prepared.t = "Response" =>
        \A n \in HeaderNames :
            HeadersBefore[n] # Absent => prepared.headers[n] = HeadersBefore[n]


StatusCodeInRange(v) == v.t = "number" /\ v.n >= 100 /\ v.n <= 999

\* The value handed to prepareResponse was an error, and this is the object
\* its JSON body was made of (none when the body was dropped for HEAD).
ErrorPrepared == prepared.t = "Response" /\ val.t \in {"Error", "H3Error"}

HasErrorBody == ErrorPrepared /\ prepared.body.t = "json"

\* C13: whatever statusCode the error object holds, the status written to
\* the response and the statusCode of the JSON body lie in [100,999].
C13_ExternalizedStatusCodeInRange ==
    /\ ErrorPrepared => (StatusCodeInRange(status) /\ StatusCodeInRange(prepared.status))
    /\ HasErrorBody => StatusCodeInRange(prepared.body.of.statusCode)

\* The text `needle` occurs in the text `hay`.
Contains(hay, needle) ==
    \E i \in 1..(Len(hay) - Len(needle) + 1) : SubSeq(hay, i, i + Len(needle) - 1) = needle

\* The texts of the JSON body of an error: its statusMessage and the lines
\* of its stack.
BodyTexts(of) ==
    (IF of.statusMessage.t = "string" THEN {of.statusMessage.s} ELSE {})
    \cup (IF of.stack.t = "array"
          THEN {of.stack.items[i].s : i \in 1..Len(of.stack.items)}
          ELSE {})

\* The fields of the JSON body other than the stack hold no text of the
\* error's message.
MessageNotInFields(of) ==
    of.statusMessage.t = "string" => ~Contains(of.statusMessage.s, val.message.s)

\* The value handed to prepareResponse was a plain Error with no status
\* fields.
PlainErrorPrepared == prepared.t = "Response" /\ val.t = "Error"

HeadersOfOneObject ==
    prepareResponse(val, method,
                    [before EXCEPT !._headersInit = Undefined,
                                   !._headers = Headers(applied)],
                    debug).response.headers

\* The response was made from the event's response state: the handler did
\* not return a Response of its own, nor the mark that it responded itself.
MadeFromEvent == prepared.t = "Response" /\ val.t \notin {"Response", "kHandled"}

\* C20: the headers of the final response are those obtained by applying
\* every setHeader, headers.set, headers.append and headers.delete call, in
\* order, to a single Headers object, whether a call landed in _headersInit
\* or in _headers.
C20_HeadersAsOneHeadersObject ==
    MadeFromEvent => prepared.headers = HeadersOfOneObject

\* No two properties of the lazy store differ in letter case only.
NoCaseCollision(store) ==
    Truthy(store) =>
        \A i, j \in 1..Len(store.entries) :
            Lower(store.entries[i].name) = Lower(store.entries[j].name) => i = j

C20_AgreesWithoutCaseCollision ==
    (MadeFromEvent /\ NoCaseCollision(before._headersInit))
        => prepared.headers = HeadersOfOneObject

\* The step is a call of send().
SendStep == sendCalls' # sendCalls

\* What the Headers object of the event holds for name n after the first
\* call of send(), `old` being what the event's header store held before it.
AfterFirstSend(n, old) ==
    IF n = "content-type" THEN <<EventStreamType>>
    ELSE IF n = "cache-control" THEN <<NoCache>>
    ELSE IF n = "x-accel-buffering" THEN <<"no">>
    ELSE IF n = "connection" /\ ":path" \notin requestHeaders THEN <<"keep-alive">>
    ELSE old[n]

\* C16: send() is idempotent. The first call writes the SSE headers
\* (connection: keep-alive only when the request is not HTTP/2) and status
\* 200 and sets _handled; _handled is set by send() only and never reset;
\* every later call leaves status, statusText and both header stores as it
\* found them; every call returns the same readable stream.
C16_SendIdempotent ==
    [][ /\ (_handled => _handled')
        /\ (~SendStep => _handled' = _handled)
        /\ (SendStep =>
              /\ _handled'
              /\ \A i \in 1..Len(sendCalls') : sendCalls'[i] = Readable
              /\ IF _handled
                 THEN UNCHANGED <<status, statusText, _headersInit, _headers>>
                 ELSE /\ status' = Num(200)
                      /\ statusText' = statusText
                      /\ _headersInit' = _headersInit
                      /\ _headers'.t = "Headers"
                      /\ \A n \in HeaderNames :
                           _headers'.h[n] =
                             AfterFirstSend(n, HeaderMap(Or(_headers, _headersInit))))
      ]_vars

\* send() has been called twice, and the response state is no longer what
\* the first call wrote: the status was changed by the application.
C16_Witness ==
    /\ Len(sendCalls) = 2
    /\ _handled
    /\ Truthy(_headers)
    /\ status = Num(404)

\* The handler returned a Response object and prepareResponse has run.
ResponseReturned == prepared.t = "Response" /\ val.t = "Response"

\* Two responses are the same in status, status text, headers and body.
SameResponse(a, b) ==
    /\ a.status = b.status
    /\ a.statusText = b.statusText
    /\ a.headers = b.headers
    /\ a.body = b.body

\* C25: when the handler returns a Response, every header of that Response
\* whose name was neither set nor deleted on the event is in the final
\* response with the same value; when nothing was set on the event at all,
\* reads of event.response.headers included, the final response is the
\* returned one.
C25_ReturnedHeadersKeptUnlessTouched ==
    ResponseReturned =>
        /\ \A n \in HeaderNames :
              (n \notin touched /\ val.headers[n] # Absent)
                 => prepared.headers[n] = val.headers[n]
        /\ (touched = {} /\ before.status = Undefined /\ before.statusText = Undefined)
              => SameResponse(prepared, val)

\* As long as the event has no header store the headers of the returned
\* Response are those of the final response.
C25_KeptWithoutHeaderStore ==
    (ResponseReturned /\ before._headers = Undefined /\ before._headersInit = Undefined)
        => prepared.headers = val.headers
(***************************************************************************)
(* Claims about the URL accessors (SpecUrl).                               *)
(***************************************************************************)
\* What an accessor returns when it is derived from a full parse of the
\* literal request URL.
FromParsedUrl(accessor) ==
    LET parsed == ParseURL(requestUrl)
    IN IF accessor = "url" THEN parsed
       ELSE IF accessor = "pathname" THEN parsed.pathname
       ELSE IF accessor = "queryString" THEN parsed.search
       ELSE IF accessor = "query" THEN parsed.searchParams
       ELSE Str(parsed.pathname.s \o parsed.search.s)

\* C19: for every request URL and every order of reads, each of pathname,
\* queryString, query, path and url returns what a full parse of the literal
\* request URL gives: the parsed pathname, its search string (empty without
\* a query), the entries of that search string, and pathname + queryString.
C19_AccessorsAgreeWithParsedUrl ==
    \A i \in 1..Len(urlReads) :
        urlReads[i].value = FromParsedUrl(urlReads[i].accessor)
(***************************************************************************)
(* Claims about sessions (SpecSession).                                    *)
(***************************************************************************)
\* The getSession / useSession calls whose caller has received the result.
SettledReads ==
    {c \in 1..Len(sessionCalls) :
        /\ sessionCalls[c].kind \in {"getSession", "useSession"}
        /\ sessionCalls[c].pc = "resolved"}

\* C26: as long as the session is not cleared, all getSession / useSession
\* calls of one event and one session name resolve to the same session
\* object, a session id is generated at most once, and no call resolves with
\* a session whose id is still empty, also when the call started while the
\* first call was still creating or unsealing the session.
C26_OneSessionOneId ==
    cleared = <<>> =>
        /\ generated <= 1
        /\ \A c \in SettledReads :
              /\ Truthy(sessionCalls[c].seen.id)
              /\ sessionCalls[c].seen.session = sessions
              /\ sessionCalls[c].seen.id = sessionObjects[sessions].id

\* Two calls started while the first call was still unsealing a sealed
\* session that fails to unseal; all three have resolved with the one
\* generated id.
C26_Witness ==
    /\ cleared = <<>>
    /\ requestSession = "invalid"
    /\ Len(sessionCalls) = 3
    /\ sessionCalls[1].found = "none"
    /\ sessionCalls[2].found = "loading"
    /\ sessionCalls[3].found = "loading"
    /\ SettledReads = {1, 2, 3}
    /\ generated = 1
    /\ \A c \in 1..3 : sessionCalls[c].seen.id = generateId(1)

\* The calls made after a clearSession whose caller has received the result.
SettledAfterClear ==
    {c \in 1..Len(sessionCalls) :
        sessionCalls[c].pc = "resolved" /\ sessionCalls[c].epoch >= 1}

\* What a settled call shows of the session the k-th clearSession removed.
ShowsCleared(c, k) ==
    \/ Truthy(cleared[k].id) /\ sessionCalls[c].seen.id = cleared[k].id
    \/ sessionCalls[c].seen.data \cap cleared[k].data # {}

\* C29: after clearSession, no getSession, useSession or updateSession call
\* on the event shows the id or any data of the session that existed before
\* the clear.
C29_ClearedSessionNeverSeenAgain ==
    \A c \in SettledAfterClear :
        \A k \in 1..sessionCalls[c].epoch : ~ShowsCleared(c, k)

\* The same, for a request that carries no sealed session that unseals.
C29_FreshWithoutSealedRequest ==
    requestSession # "valid" => C29_ClearedSessionNeverSeenAgain

(***************************************************************************)
(* Claims about withBase (SpecBase).                                       *)
(***************************************************************************)
\* The pathname left after the first n bases of the chain have been removed
\* from p, outermost first.
RECURSIVE Stripped(_, _)
Stripped(p, n) ==
    IF n = 0 THEN p ELSE withoutBase(Stripped(p, n - 1), baseChain[n])

\* C27: the wrapped handler runs with the original pathname with the bases
\* removed; every withBase handler that has settled, fulfilled or failed,
\* has left the pathname exactly as it found it, nested ones included; and
\* the outcome of the wrapped handler is passed through unchanged.
C27_PathnameRestored ==
    /\ baseH.state # "idle" => baseH.saw = Str(Stripped(originalPathname.s, Len(baseChain)))
    /\ \A i \in 1..Len(baseLog) : baseLog[i].after = baseLog[i].before
    /\ baseResult.kind # "pending" =>
          /\ evPathname = originalPathname
          /\ baseResult = OutcomeOfH

\* The same, for a wrapped handler that does not throw.
C27_RestoredUnlessHandlerThrows ==
    baseH.state # "threw" => C27_PathnameRestored

\* What is left when the wrapped handler throws: the outcome is passed
\* through and the handler saw the stripped pathname.
C27_OutcomePassedThrough ==
    /\ baseH.state # "idle" => baseH.saw = Str(Stripped(originalPathname.s, Len(baseChain)))
    /\ baseResult.kind # "pending" => baseResult = OutcomeOfH

(***************************************************************************)
(* Claims about response cookies (SpecCookie).                             *)
(***************************************************************************)
\* The key of a set-cookie entry the response carries.
KeyOfEntry(cookie) ==
    LET parsed == parseSetCookie(cookie)
    IN _getDistinctCookieKey(Join(Split(cookie, "=", <<>>)[1]), parsed)

\* C30: after any sequence of setCookie and deleteCookie calls the response
\* carries at most one set-cookie entry per distinct cookie key, that entry
\* is the one the latest call for the key wrote, and the entries of the
\* other keys keep their values and their relative order.
C30_OneEntryPerCookieKey ==
    \E keys \in {[i \in 1..Len(setCookieHeader) |-> KeyOfEntry(setCookieHeader[i])]} :
        /\ \A i, j \in 1..Len(keys) : i # j => keys[i] # keys[j]
        /\ setCookieHeader = [i \in 1..Len(cookieJar) |-> cookieJar[i].cookie]
        /\ keys = [i \in 1..Len(cookieJar) |-> cookieJar[i].key]

\* Cookie "a" was set, then cookie "b", then cookie "a" with sameSite
\* "lax", and cookie "a" was deleted: "b" is kept and comes first, the
\* cookie with sameSite is kept, "a" is the deleted one.
C30_Witness ==
    setCookieHeader =
      << <<"b", "=", "1">> \o Attribute("Path", "/"),
         <<"a", "=", "1">> \o Attribute("Path", "/") \o Attribute("SameSite", "Lax"),
         <<"a", "=">> \o Attribute("Max-Age", "0") \o Attribute("Path", "/") >>

====
